---- MODULE Spec2Model ----
(***************************************************************************)
(* Kinematic mover, level collision query and player state of the          *)
(* platformer (physics.rs, world.rs, player.rs, main.rs).                   *)
(*                                                                         *)
(* Numbers.  The program computes in f32 world units.  The model computes  *)
(* exactly, in integer sub-units: one world unit is Unit sub-units and the *)
(* sub-step length 0.1 is MAX_STEP_LENGTH sub-units.  Velocities are drawn  *)
(* from directions whose normalisation is exact (the axes and the 3-4-5    *)
(* diagonals), so delta / |delta| * 0.1 has no rounding in the model.      *)
(* f32 rounding (absorption of a 0.1 step by a magnitude above 2^21) is    *)
(* outside the model.  Time is counted in 1/60 s.                          *)
(***************************************************************************)
EXTENDS Integers, Sequences, FiniteSets, TLC

(***************************************************************************)
(* Bounds of the model                                                     *)
(***************************************************************************)
\* physics ticks explored in one behaviour
MaxTicks == 2
\* largest Time::delta_seconds of a frame, in 1/60 s
MaxDt == 1

(***************************************************************************)
(* Program constants                                                       *)
(***************************************************************************)
\* calculate_delta_step: MAX_STEP_LENGTH = 0.1 world units, in sub-units
MAX_STEP_LENGTH == 10
\* sub-units per world unit (0.1 * Unit = MAX_STEP_LENGTH)
Unit == 10 * MAX_STEP_LENGTH
\* world.rs get_tile: pixels per tile
TILE_SIZE == 16
\* FixedTimestep::step(1. / 60.): a second is SecondDen ticks of the clock
SecondDen == 60

None == <<>>
Some(x) == <<x>>

Abs(n) == IF n < 0 THEN -n ELSE n
Sign(n) == IF n > 0 THEN 1 ELSE IF n < 0 THEN -1 ELSE 0

\* Rust integer division: truncates toward zero
TruncDiv(a, b) == Sign(a) * Sign(b) * (Abs(a) \div Abs(b))

\* f32::floor of n / d sub-units, d > 0
Floor(n, d) == n \div d

\* f32::round of n / d: half away from zero
Round(n, d) == IF n >= 0 THEN (2 * n + d) \div (2 * d) ELSE -((2 * (-n) + d) \div (2 * d))

RECURSIVE ISqrtFrom(_, _)
ISqrtFrom(n, r) == IF (r + 1) * (r + 1) > n THEN r ELSE ISqrtFrom(n, r + 1)
\* integer square root (exact on the squares the model draws)
ISqrt(n) == ISqrtFrom(n, 0)

(***************************************************************************)
(* Vec2 (glam)                                                             *)
(***************************************************************************)
ZERO == <<0, 0>>
VAdd(a, b) == <<a[1] + b[1], a[2] + b[2]>>
VSub(a, b) == <<a[1] - b[1], a[2] - b[2]>>
LengthSquared(v) == v[1] * v[1] + v[2] * v[2]
Length(v) == ISqrt(LengthSquared(v))

(***************************************************************************)
(* Rect and RectExtras (physics.rs)                                        *)
(***************************************************************************)
from_min_size(min, size) == [min |-> min, max |-> VAdd(min, size)]
RectSize(r) == VSub(r.max, r.min)
translate(r, amnt) == from_min_size(VAdd(r.min, amnt), RectSize(r))
intersects(self, other) ==
    /\ self.min[1] <= other.max[1]
    /\ other.min[1] <= self.max[1]
    /\ self.min[2] <= other.max[2]
    /\ other.min[2] <= self.max[2]

(***************************************************************************)
(* The level data (world.rs) and the entities of the world                 *)
(***************************************************************************)
\* a level of w x h tiles at world pixel (wx, wy) whose Collision layer is
\* non-zero exactly at the cells of solid (local cell coordinates)
LevelOf(wx, wy, w, h, solid) ==
    [world_x |-> wx, world_y |-> wy, px_wid |-> w * TILE_SIZE, px_hei |-> h * TILE_SIZE,
     layer_instances |->
        << [identifier |-> "Collision", c_wid |-> w,
            int_grid_csv |-> [i \in 1..(w * h) |->
                IF <<(i - 1) % w, (i - 1) \div w>> \in solid THEN 1 ELSE 0]] >>]

\* a room: a floor along row 0 and a wall along column 0
RoomCells == {<<x, 0>> : x \in 0..3} \cup {<<0, y>> : y \in 0..3}
\* a single block, whose corners are outer corners
LedgeCells == {<<1, 1>>}

\* entity ids
PlayerId == 1
OtherBodyId == 2
LeftSensorId == 3
RightSensorId == 4
WallId == 10
LevelEntityId == 20

KinematicBodies == {PlayerId, OtherBodyId}
Sensors == {LeftSensorId, RightSensorId}

\* the worlds the behaviours start in, by name: the LdtkProject asset and the
\* static bodies with a RectCollision (entity, rectangle, translation in sub-units)
Worlds ==
    [w \in {"Room", "Ledge"} |->
       IF w = "Room"
       THEN [project |-> [levels |-> << LevelOf(0, 0, 4, 4, RoomCells) >>],
             rects |-> << [entity |-> WallId,
                           rect |-> from_min_size(ZERO, <<Unit, Unit>>),
                           translation |-> <<370, 100>>] >>]
       ELSE [project |-> [levels |-> << LevelOf(0, 0, 4, 4, LedgeCells) >>],
             rects |-> << >>]]

(***************************************************************************)
(* LdtkProject::get_tile (world.rs)                                        *)
(***************************************************************************)
\* Rect::from_min_size(world / TILE_SIZE, px / TILE_SIZE).contains(vec2(x, y)),
\* compared in pixels (the divisions by 16 are exact in f32)
LevelContains(level, x, y) ==
    /\ level.world_x <= x * TILE_SIZE
    /\ x * TILE_SIZE <= level.world_x + level.px_wid
    /\ level.world_y <= y * TILE_SIZE
    /\ y * TILE_SIZE <= level.world_y + level.px_hei

\* levels.iter().find(..): index of the first level containing the cell, 0 if none
RECURSIVE FindLevel(_, _, _, _)
FindLevel(levels, i, x, y) ==
    IF i > Len(levels) THEN 0
    ELSE IF LevelContains(levels[i], x, y) THEN i
    ELSE FindLevel(levels, i + 1, x, y)

\* layer_instances.iter().flatten().find(|layer| layer.identifier == "Collision")
RECURSIVE FindCollisionLayer(_, _)
FindCollisionLayer(layers, i) ==
    IF i > Len(layers) THEN 0
    ELSE IF layers[i].identifier = "Collision" THEN i
    ELSE FindCollisionLayer(layers, i + 1)

\* int_grid_csv[idx as usize] of the level's own cell; an index outside the
\* vector panics
TileAt(level, layer, x, y) ==
    LET local_pos == <<x - TruncDiv(level.world_x, TILE_SIZE),
                       y - TruncDiv(level.world_y, TILE_SIZE)>>
        idx == local_pos[1] + local_pos[2] * layer.c_wid
    IN  IF idx < 0 \/ idx >= Len(layer.int_grid_csv) THEN "Panic"
        ELSE IF layer.int_grid_csv[idx + 1] # 0 THEN "Solid"
        ELSE "None"

\* "Solid", "None", or "Panic" when the index is out of bounds
get_tile(project, x, y) ==
    LET li == FindLevel(project.levels, 1, x, y) IN
    IF li = 0 THEN "None"
    ELSE LET level == project.levels[li]
             ci == FindCollisionLayer(level.layer_instances, 1)
         IN  IF ci = 0 THEN "None"
             ELSE TileAt(level, level.layer_instances[ci], x, y)

(***************************************************************************)
(* PhysicsWorld::get_rect_collisions (physics.rs)                          *)
(***************************************************************************)
\* fn round(point): ((point.x - 0.5).floor(), point.y.round())
round(point) == <<Floor(2 * point[1] - Unit, 2 * Unit), Round(point[2], Unit)>>

\* the four corners of the rectangle, in the order of tiles_to_check
tiles_to_check(rect) ==
    LET x == rect.min[1]
        y == rect.min[2]
        w == rect.max[1] - rect.min[1]
        h == rect.max[2] - rect.min[2]
    IN  << round(<<x, y>>), round(<<x + w, y>>), round(<<x, y + h>>), round(<<x + w, y + h>>) >>

\* tiles_to_check.into_iter().any(|pos| get_tile(pos) is Some(Solid)):
\* "Some" at the first solid tile, "Panic" if a lookup panics before that
RECURSIVE AnySolid(_, _, _)
AnySolid(project, tiles, i) ==
    IF i > Len(tiles) THEN "None"
    ELSE LET t == get_tile(project, tiles[i][1], tiles[i][2]) IN
         IF t = "Panic" THEN "Panic"
         ELSE IF t = "Solid" THEN "Some"
         ELSE AnySolid(project, tiles, i + 1)

\* the loop over self.collisions from entry i on: "Some" (an entity is hit),
\* "None" or "Panic"
RECURSIVE RectCollisionsFrom(_, _, _, _, _)
RectCollisionsFrom(collisions, i, rect, this_entity, project) ==
    IF i > Len(collisions) THEN "None"
    ELSE LET other == collisions[i] IN
         IF other.entity = this_entity
         THEN RectCollisionsFrom(collisions, i + 1, rect, this_entity, project)
         ELSE IF other.type = "Rect"
         THEN IF intersects(other.rect, rect) THEN "Some"
              ELSE RectCollisionsFrom(collisions, i + 1, rect, this_entity, project)
         ELSE LET any == AnySolid(project, tiles_to_check(rect), 1) IN
              IF any = "None"
              THEN RectCollisionsFrom(collisions, i + 1, rect, this_entity, project)
              ELSE any

get_rect_collisions(collisions, rect, this_entity, project) ==
    RectCollisionsFrom(collisions, 1, rect, this_entity, project)

(***************************************************************************)
(* State                                                                   *)
(***************************************************************************)
VARIABLES
    world,          \* name of the world: the LdtkProject asset and the StaticBody rectangles
    project_loaded, \* map_assets.get(&world.ldtk) is Some
    physics_world,  \* PhysicsWorld.collisions
    time_delta,     \* Time::delta_seconds of the frame, in 1/60 s
    accum,          \* FixedTimestep: steps still to run in this frame
    bodies,         \* kinematic bodies: GlobalTransform.translation, Velocity,
                    \* KinematicCollisions (None until first inserted)
    sensed,         \* SensedBodies of the player's side sensors (None until inserted)
    player,         \* the Player component
    pc,             \* position of the schedule
    todo,           \* systems of the physics set still to run in this tick
    queue,          \* move_bodies: bodies the query has still to yield
    cur,            \* move_bodies: the body of the current loop pass
    sweep,          \* move_bodies: the locals to_move, step, collisions and
                    \* last_position for the current body, and (history) the
                    \* outcomes of its loop passes so far
    start,          \* history: each body, and delta_time, at the start of the
                    \* current move_bodies
    swept,          \* history: what the current move_bodies did to each body
    iters,          \* history: iterations of the while loop for the current body
    ticks,          \* history: physics ticks run so far
    input,          \* the Input resource: the actions Jump and Down, the axis Horizontal
    startup,        \* Time::time_since_startup of the frame, in 1/60 s
    gameplay_time,  \* GameplayTime: elapsed() of the stopwatch, in 1/60 s
    hist,           \* history: the frames begun, and what the last update_player did
    mapper,         \* the InputMapper resource: the mappings asset and the TriggerRecord
    pressing,       \* history: the device events of the frame, for each digital trigger
    app_state,      \* State<AppState>: the current state and the scheduled transition
    paused          \* GameplayTime: the stopwatch is paused

\* the resources only the Update stage of the player works on
update_stage ==
    << input, startup, gameplay_time, hist, mapper, pressing, app_state, paused >>

vars == << world, project_loaded, physics_world, time_delta, accum, bodies, sensed,
           player, pc, todo, queue, cur, sweep, start, swept, iters, ticks, update_stage >>

\* CollisionSide (bitflags), as a set of names
CollisionSide == {"UP", "DOWN", "LEFT", "RIGHT"}

\* PlayerBundle::default: collision rect of one world unit
BodyRect == from_min_size(ZERO, <<Unit, Unit>>)

\* displacement per 1/60 s in sub-units: the axes and the 3-4-5 diagonals
Directions ==
    {<<5, 0>>, <<-5, 0>>, <<0, 5>>, <<0, -5>>}
    \cup {<<sx * 3, sy * 4>> : sx \in {-1, 1}, sy \in {-1, 1}}
Magnitudes == {1, 2, 5}
VelocityOf(d, k) == <<d[1] * k * SecondDen, d[2] * k * SecondDen>>

PlayerVelocities == {ZERO} \cup {VelocityOf(d, k) : d \in Directions, k \in Magnitudes}
OtherVelocities == {ZERO, VelocityOf(<<0, 5>>, 2), VelocityOf(<<-3, -4>>, 2)}
PlayerStarts ==
    {<<152, 52>>, <<152, 58>>, <<200, 62>>, <<152, 152>>, <<252, 152>>, <<340, 152>>}
OtherStarts == {<<200, 240>>}

Permutations2(S) == {q \in [1..Cardinality(S) -> S] : \A i, j \in DOMAIN q : i # j => q[i] # q[j]}

(***************************************************************************)
(* The player component and its resources (player.rs, input_mapper.rs)     *)
(***************************************************************************)
\* Duration::from_millis(ms), in 1/60 s
from_millis(ms) == (ms * SecondDen) \div 1000

\* PlayerProperties::default, speeds in sub-units per second
max_run_speed == 12 * Unit
ground_acceleration == 85 * Unit
ground_decceleration == 65 * Unit
ground_direction_change_acceleration == (85 + 40) * Unit
air_acceleration == 50 * Unit
air_decceleration == 20 * Unit
air_direction_change_acceleration == 100 * Unit
gravity == 100 * Unit
terminal_speed == 45 * Unit
jump_force == 22 * Unit
jump_gravity == 57 * Unit
coyote_time == from_millis(100)
jump_buffer_time == from_millis(150)
\* 0.8 as numerator and denominator
multijump_coefficient == << 4, 5 >>
walljump_vertical_force == 20 * Unit
walljump_horizontal_force == 10 * Unit
dead_time_after_walljump == from_millis(200)

\* the properties the model varies: jumps_available, wallslide_max_v_speed, can_walljump
DefaultProperties ==
    [jumps_available |-> 2, wallslide_max_v_speed |-> Some(15 * Unit), can_walljump |-> TRUE]

\* Player::default (derive Default), with the given properties
PlayerDefault(properties) ==
    [state |-> "Airborne",
     properties |-> properties,
     pressed_jump |-> FALSE,
     can_jump |-> FALSE,
     jump_pressed_time |-> 0,
     last_grounded_time |-> 0,
     last_walljump_time |-> 0,
     times_jumped_since_grounded |-> 0]

\* enum ActionState
ActionState == {"Released", "JustReleased", "JustPressed", "Held"}

\* ActionState::is_pressed
is_pressed(a) == a \in {"JustPressed", "Held"}

\* Input::default: every action Released, every axis 0 (pausing.rs reads the
\* action Pause)
InputDefault ==
    [Jump |-> "Released", Down |-> "Released", Pause |-> "Released", Horizontal |-> 0]

\* State<AppState>: the app is in Playing, no transition is scheduled
AppStatePlaying == [current |-> "Playing", scheduled |-> None]

\* history before the first frame: what the last update_player did, the app
\* state the frame began in, whether the physics set ran in the frame, and the
\* regular jumps since a physics tick last left DOWN on the player
NoHistory ==
    [jump |-> "none", n |-> 0, at |-> 0, pressed_at |-> 0, state |-> "Airborne", jumps |-> 0,
     grounded_at |-> -1, frames |-> 0, velocity |-> ZERO, walljumped |-> FALSE,
     app |-> "Playing", ticked |-> TRUE, impulses |-> 0]

\* DigitalTrigger: the keys Space, A and D and the gamepad button South
Keys == {"Space", "A", "D"}
GamepadButtons == {"South"}
DigitalTriggers == Keys \cup GamepadButtons

\* GamepadAxis: the horizontal axis of the left stick
GamepadAxes == {"LeftStickX"}

\* TriggerRecord::default
TriggerRecordDefault ==
    [just_pressed |-> {}, held |-> {}, just_released |-> {}, axis_values |-> << >>]

\* InputMapper::default: the handle points at no loaded InputMappings yet
InputMapperDefault == [mappings |-> None, trigger_record |-> TriggerRecordDefault]

\* no device event has arrived for any trigger
NoEvents == [t \in DigitalTriggers |-> [down |-> 0, released |-> FALSE]]

Init ==
    /\ world \in DOMAIN Worlds
    /\ project_loaded = FALSE
    /\ physics_world = << >>
    /\ time_delta = 0
    /\ accum = 0
    /\ \E pt \in PlayerStarts, pv \in PlayerVelocities, ot \in OtherStarts, ov \in OtherVelocities :
         bodies = [b \in KinematicBodies |->
            IF b = PlayerId
            THEN [translation |-> pt, velocity |-> pv, collisions |-> None,
                  pass_through_platforms |-> FALSE]
            ELSE [translation |-> ot, velocity |-> ov, collisions |-> None,
                  pass_through_platforms |-> FALSE]]
    /\ sensed = [s \in Sensors |-> None]
    /\ player = PlayerDefault(DefaultProperties)
    /\ input = InputDefault
    /\ startup = 0
    /\ gameplay_time = 0
    /\ hist = NoHistory
    /\ mapper = InputMapperDefault
    /\ pressing = NoEvents
    /\ app_state = AppStatePlaying
    /\ paused = FALSE
    /\ pc = "frame"
    /\ todo = {}
    /\ queue = << >>
    /\ cur = PlayerId
    /\ sweep = [to_move |-> ZERO, step |-> ZERO, collisions |-> {},
                last_position |-> ZERO, outcomes |-> {}]
    /\ start = [b \in KinematicBodies |->
                    [translation |-> ZERO, velocity |-> ZERO, collisions |-> None,
                     delta_time |-> 0]]
    /\ swept = [b \in KinematicBodies |-> "none"]
    /\ iters = 0
    /\ ticks = 0

(***************************************************************************)
(* move_bodies (physics.rs): the sweep of one body                         *)
(***************************************************************************)
\* the closure is_colliding: "Some" (colliding), "None" or "Panic"
is_colliding(entity, translation) ==
    get_rect_collisions(physics_world, translate(BodyRect, translation), entity,
                        Worlds[world].project)

\* (**velocity) * delta_time
ToMove(velocity, dt) ==
    <<TruncDiv(velocity[1] * dt, SecondDen), TruncDiv(velocity[2] * dt, SecondDen)>>

\* fn calculate_delta_step
calculate_delta_step(delta) ==
    LET delta_len == Length(delta) IN
    IF LengthSquared(delta) <= MAX_STEP_LENGTH * MAX_STEP_LENGTH
    THEN delta
    ELSE <<TruncDiv(delta[1] * MAX_STEP_LENGTH, delta_len),
           TruncDiv(delta[2] * MAX_STEP_LENGTH, delta_len)>>

\* while to_move.length() >= step.length()
LoopCondition(to_move, step) == LengthSquared(to_move) >= LengthSquared(step)

\* if velocity.x > 0. { RIGHT } else { LEFT }
HorizontalSide(velocity) == IF velocity[1] > 0 THEN "RIGHT" ELSE "LEFT"

\* a faulty VerticalSide: the test the other way round
VerticalSide_Inverted(velocity) == IF velocity[2] > 0 THEN "DOWN" ELSE "UP"

\* if velocity.y > 0. { UP } else { DOWN }
VerticalSide(velocity) == IF velocity[2] > 0 THEN "UP" ELSE "DOWN"

\* transform.translation.x = last_position.x
RollBackX(last_position, translation) == <<last_position[1], translation[2]>>

\* transform.translation.x += step.x; transform.translation.y = last_position.y
RollBackY(last_position, translation, step) ==
    <<translation[1] + step[1], last_position[2]>>

\* a faulty Remaining: the loop without to_move -= step
Remaining_NotSubtracted(to_move, step) == to_move

\* to_move -= step
Remaining(to_move, step) == VSub(to_move, step)

\* after a resolved collision: break when nothing is left, else a new step
StepAfterCollision(to_move, step) ==
    IF to_move = ZERO THEN step ELSE calculate_delta_step(to_move)

\* a faulty BlockedX: the X branch without to_move.x = 0
BlockedX_KeepsRemainingX(s, moved_back, to_move) ==
    [translation |-> moved_back,
     velocity    |-> <<0, s.velocity[2]>>,
     to_move     |-> to_move,
     step        |-> StepAfterCollision(to_move, s.step),
     collisions  |-> s.collisions \cup {HorizontalSide(s.velocity)},
     outcome     |-> "x"]

\* a body blocked by a wall: the Not-colliding-when-moved-back-on-X branch
BlockedX(s, moved_back, to_move) ==
    LET tm == <<0, to_move[2]>> IN
    [translation |-> moved_back,
     velocity    |-> <<0, s.velocity[2]>>,
     to_move     |-> tm,
     step        |-> StepAfterCollision(tm, s.step),
     collisions  |-> s.collisions \cup {HorizontalSide(s.velocity)},
     outcome     |-> "x"]

\* a faulty BlockedY: the branch assigning its side instead of adding it
BlockedY_Overwrites(s, moved_back, to_move) ==
    [translation |-> moved_back,
     velocity    |-> <<s.velocity[1], 0>>,
     to_move     |-> <<to_move[1], 0>>,
     step        |-> StepAfterCollision(<<to_move[1], 0>>, s.step),
     collisions  |-> {VerticalSide(s.velocity)},
     outcome     |-> "y"]

\* a body blocked by the ground or the ceiling
BlockedY(s, moved_back, to_move) ==
    LET tm == <<to_move[1], 0>> IN
    [translation |-> moved_back,
     velocity    |-> <<s.velocity[1], 0>>,
     to_move     |-> tm,
     step        |-> StepAfterCollision(tm, s.step),
     collisions  |-> s.collisions \cup {VerticalSide(s.velocity)},
     outcome     |-> "y"]

\* a faulty BlockedBoth: the branch without transform.translation = last_position
BlockedBoth_NotRestored(s, last_position, to_move) ==
    [translation |-> <<last_position[1] + s.step[1], last_position[2]>>,
     velocity    |-> ZERO,
     to_move     |-> to_move,
     step        |-> s.step,
     collisions  |-> s.collisions \cup {HorizontalSide(s.velocity), VerticalSide(s.velocity)},
     outcome     |-> "corner"]

\* colliding in both axes: stop all movement (and return from move_bodies)
BlockedBoth(s, last_position, to_move) ==
    [translation |-> last_position,
     velocity    |-> ZERO,
     to_move     |-> to_move,
     step        |-> s.step,
     collisions  |-> s.collisions \cup {HorizontalSide(s.velocity), VerticalSide(s.velocity)},
     outcome     |-> "corner"]

\* a lookup panicked with the translation as it then was
Panicked(s, translation, to_move) ==
    [translation |-> translation, velocity |-> s.velocity, to_move |-> to_move,
     step |-> s.step, collisions |-> s.collisions, outcome |-> "panic"]

\* a faulty LoopPass: the roll-back of Y is tried before the roll-back of X
LoopPass_YFirst(entity, s) ==
    LET last_position == s.translation
        stepped == VAdd(s.translation, s.step)
        to_move == Remaining(s.to_move, s.step)
        c1 == is_colliding(entity, stepped)
        back_y == << stepped[1], last_position[2] >>
        c2 == is_colliding(entity, back_y)
        back_x == RollBackX(last_position, stepped)
        c3 == is_colliding(entity, back_x)
    IN  IF c1 = "Panic" THEN Panicked(s, stepped, to_move)
        ELSE IF c1 = "None"
        THEN [translation |-> stepped, velocity |-> s.velocity, to_move |-> to_move,
              step |-> s.step, collisions |-> s.collisions, outcome |-> "free"]
        ELSE IF c2 = "Panic" THEN Panicked(s, back_y, to_move)
        ELSE IF c2 = "None" THEN BlockedY(s, back_y, to_move)
        ELSE IF c3 = "Panic" THEN Panicked(s, back_x, to_move)
        ELSE IF c3 = "None" THEN BlockedX(s, back_x, to_move)
        ELSE BlockedBoth(s, last_position, to_move)

\* one pass of the while loop for entity, from the locals and components s
LoopPass(entity, s) ==
    LET last_position == s.translation
        stepped == VAdd(s.translation, s.step)
        to_move == Remaining(s.to_move, s.step)
        c1 == is_colliding(entity, stepped)
        back_x == RollBackX(last_position, stepped)
        c2 == is_colliding(entity, back_x)
        back_y == RollBackY(last_position, back_x, s.step)
        c3 == is_colliding(entity, back_y)
    IN  IF c1 = "Panic" THEN Panicked(s, stepped, to_move)
        ELSE IF c1 = "None"
        THEN [translation |-> stepped, velocity |-> s.velocity, to_move |-> to_move,
              step |-> s.step, collisions |-> s.collisions, outcome |-> "free"]
        ELSE IF c2 = "Panic" THEN Panicked(s, back_x, to_move)
        ELSE IF c2 = "None" THEN BlockedX(s, back_x, to_move)
        ELSE IF c3 = "Panic" THEN Panicked(s, back_y, to_move)
        ELSE IF c3 = "None" THEN BlockedY(s, back_y, to_move)
        ELSE BlockedBoth(s, last_position, to_move)

\* whether the loop is left after a pass: the break, or the while condition
LoopEnds(r) ==
    \/ r.outcome \in {"x", "y"} /\ r.to_move = ZERO
    \/ ~LoopCondition(r.to_move, r.step)

(***************************************************************************)
(* The schedule: a frame is Time's update, the PreUpdate stage (the        *)
(* physics set, once per elapsed fixed step: update_physics_world, then    *)
(* move_bodies and detect_bodies in either order), then the Update stage.  *)
(***************************************************************************)
AfterSystem(left) == IF left = {} THEN "pre" ELSE "phys"

\* the asset server finishes loading world.ldtk
LoadProject ==
    /\ pc = "frame"
    /\ ~project_loaded
    /\ project_loaded' = TRUE
    /\ UNCHANGED << update_stage, world, physics_world, time_delta, accum, bodies, sensed, player, pc,
                    todo, queue, cur, sweep, start, swept, iters, ticks >>

\* Time is updated; FixedTimestep owes one run per elapsed 1/60 s
BeginFrame ==
    /\ pc = "frame"
    /\ todo = {}
    /\ app_state.scheduled = None
    /\ \E dt \in 0..MaxDt :
         /\ ticks + dt <= MaxTicks
         /\ time_delta' = dt
         /\ accum' = dt
    /\ pc' = "pre"
    /\ UNCHANGED << update_stage, world, project_loaded, physics_world, bodies, sensed, player, todo,
                    queue, cur, sweep, start, swept, iters, ticks >>

\* fn update_physics_world
update_physics_world ==
    /\ pc = "pre"
    /\ accum > 0
    /\ physics_world' =
         [i \in 1..Len(Worlds[world].rects) |->
            [entity |-> Worlds[world].rects[i].entity, type |-> "Rect",
             rect |-> translate(Worlds[world].rects[i].rect, Worlds[world].rects[i].translation)]]
         \o << [entity |-> LevelEntityId, type |-> "Level", level_id |-> "Level_0"] >>
    /\ accum' = accum - 1
    /\ ticks' = ticks + 1
    /\ todo' = {"move", "detect"}
    /\ pc' = "phys"
    /\ UNCHANGED << update_stage, world, project_loaded, time_delta, bodies, sensed, player, queue, cur,
                    sweep, start, swept, iters >>

\* a faulty move_bodies: without the project the bodies move unchecked
MoveBodiesNoProject_Unchecked ==
    /\ pc = "phys"
    /\ "move" \in todo
    /\ ~project_loaded
    /\ todo' = todo \ {"move"}
    /\ pc' = AfterSystem(todo')
    /\ swept' = [b \in KinematicBodies |-> "none"]
    /\ bodies' = [b \in KinematicBodies |->
                    [bodies[b] EXCEPT !.translation =
                        VAdd(@, ToMove(bodies[b].velocity, time_delta))]]
    /\ UNCHANGED << update_stage, world, project_loaded, physics_world, time_delta, accum, sensed,
                    player, queue, cur, sweep, start, iters, ticks >>

\* move_bodies without the project: return
MoveBodiesNoProject ==
    /\ pc = "phys"
    /\ "move" \in todo
    /\ ~project_loaded
    /\ todo' = todo \ {"move"}
    /\ pc' = AfterSystem(todo')
    /\ swept' = [b \in KinematicBodies |-> "none"]
    /\ UNCHANGED << update_stage, world, project_loaded, physics_world, time_delta, accum, bodies, sensed,
                    player, queue, cur, sweep, start, iters, ticks >>

\* move_bodies with the project: the query yields the bodies in some order
MoveBodiesBegin ==
    /\ pc = "phys"
    /\ "move" \in todo
    /\ project_loaded
    /\ queue' \in Permutations2(KinematicBodies)
    /\ start' = [b \in KinematicBodies |->
                    [translation |-> bodies[b].translation, velocity |-> bodies[b].velocity,
                     collisions |-> bodies[b].collisions, delta_time |-> time_delta]]
    /\ swept' = [b \in KinematicBodies |-> "pending"]
    /\ pc' = "bodies"
    /\ UNCHANGED << update_stage, world, project_loaded, physics_world, time_delta, accum, bodies, sensed,
                    player, todo, cur, sweep, iters, ticks >>

\* to_move is zero: continue with the next body
BodySkipped ==
    /\ pc = "bodies"
    /\ queue # << >>
    /\ LET b == Head(queue) IN
         /\ ToMove(bodies[b].velocity, time_delta) = ZERO
         /\ swept' = [swept EXCEPT ![b] = "skipped"]
    /\ queue' = Tail(queue)
    /\ UNCHANGED << update_stage, world, project_loaded, physics_world, time_delta, accum, bodies, sensed,
                    player, pc, todo, cur, sweep, start, iters, ticks >>

\* the first step of a body that moves
BodyBegin ==
    /\ pc = "bodies"
    /\ queue # << >>
    /\ LET b == Head(queue)
           to_move == ToMove(bodies[b].velocity, time_delta)
           step == calculate_delta_step(to_move)
       IN  /\ to_move # ZERO
           /\ cur' = b
           /\ sweep' = [to_move |-> to_move, step |-> step, collisions |-> {},
                        last_position |-> bodies[b].translation, outcomes |-> {}]
           /\ pc' = IF LoopCondition(to_move, step) THEN "loop" ELSE "after"
    /\ queue' = Tail(queue)
    /\ iters' = 0
    /\ UNCHANGED << update_stage, world, project_loaded, physics_world, time_delta, accum, bodies, sensed,
                    player, todo, start, swept, ticks >>

\* the locals and components the loop works on
LoopState ==
    [translation |-> bodies[cur].translation, velocity |-> bodies[cur].velocity,
     to_move |-> sweep.to_move, step |-> sweep.step, collisions |-> sweep.collisions]

\* a pass of the while loop that leaves the body inside move_bodies
LoopResolved(outcome) ==
    /\ pc = "loop"
    /\ LET r == LoopPass(cur, LoopState) IN
         /\ r.outcome = outcome
         /\ bodies' = [bodies EXCEPT ![cur].translation = r.translation,
                                     ![cur].velocity = r.velocity]
         /\ sweep' = [to_move |-> r.to_move, step |-> r.step, collisions |-> r.collisions,
                      last_position |-> bodies[cur].translation,
                      outcomes |-> sweep.outcomes \cup {r.outcome}]
         /\ pc' = IF LoopEnds(r) THEN "after" ELSE "loop"
    /\ iters' = iters + 1
    /\ UNCHANGED << update_stage, world, project_loaded, physics_world, time_delta, accum, sensed, player,
                    todo, queue, cur, start, swept, ticks >>

LoopFree == LoopResolved("free")
LoopBlockedX == LoopResolved("x")
LoopBlockedY == LoopResolved("y")

\* colliding in both axes: the body is put back and move_bodies returns
LoopCorner ==
    /\ pc = "loop"
    /\ LET r == LoopPass(cur, LoopState) IN
         /\ r.outcome = "corner"
         /\ bodies' = [bodies EXCEPT ![cur].translation = r.translation,
                                     ![cur].velocity = r.velocity]
         /\ sweep' = [to_move |-> r.to_move, step |-> r.step, collisions |-> r.collisions,
                      last_position |-> bodies[cur].translation,
                      outcomes |-> sweep.outcomes \cup {r.outcome}]
    /\ swept' = [b \in KinematicBodies |->
                    IF b = cur THEN "corner"
                    ELSE IF swept[b] = "pending" THEN "unvisited" ELSE swept[b]]
    /\ queue' = << >>
    /\ todo' = todo \ {"move"}
    /\ pc' = AfterSystem(todo')
    /\ iters' = iters + 1
    /\ UNCHANGED << update_stage, world, project_loaded, physics_world, time_delta, accum, sensed, player,
                    cur, start, ticks >>

\* an out-of-range int_grid_csv index: the program panics
LoopPanic ==
    /\ pc = "loop"
    /\ LET r == LoopPass(cur, LoopState) IN
         /\ r.outcome = "panic"
         /\ bodies' = [bodies EXCEPT ![cur].translation = r.translation]
         /\ sweep' = [sweep EXCEPT !.to_move = r.to_move,
                                   !.last_position = bodies[cur].translation,
                                   !.outcomes = sweep.outcomes \cup {r.outcome}]
    /\ pc' = "crashed"
    /\ iters' = iters + 1
    /\ UNCHANGED << update_stage, world, project_loaded, physics_world, time_delta, accum, sensed, player,
                    todo, queue, cur, start, swept, ticks >>

\* commands.entity(entity).insert(KinematicCollisions { sides: collisions })
InsertCollisions ==
    /\ pc = "after"
    /\ bodies' = [bodies EXCEPT ![cur].collisions = Some(sweep.collisions)]
    /\ swept' = [swept EXCEPT ![cur] = "inserted"]
    /\ pc' = "bodies"
    /\ UNCHANGED << update_stage, world, project_loaded, physics_world, time_delta, accum, sensed, player,
                    todo, queue, cur, sweep, start, iters, ticks >>

\* the query is exhausted
MoveBodiesEnd ==
    /\ pc = "bodies"
    /\ queue = << >>
    /\ todo' = todo \ {"move"}
    /\ pc' = AfterSystem(todo')
    /\ UNCHANGED << update_stage, world, project_loaded, physics_world, time_delta, accum, bodies, sensed,
                    player, queue, cur, sweep, start, swept, iters, ticks >>

(***************************************************************************)
(* detect_bodies (physics.rs) and the player's side sensors (player.rs)    *)
(***************************************************************************)
\* PlayerSideCollisionCheckerBundle::left / right: Transform::from_xyz(-+0.1, 0, 0)
SensorOffset(s) == IF s = LeftSensorId THEN <<-MAX_STEP_LENGTH, 0>> ELSE <<MAX_STEP_LENGTH, 0>>

\* the probe's GlobalTransform: a child of the player at its offset
SensorTranslation(s) == VAdd(bodies[PlayerId].translation, SensorOffset(s))

\* the static rectangles touched by col_rect, in query order
RECURSIVE SensedRects(_, _, _)
SensedRects(rects, i, col_rect) ==
    IF i > Len(rects) THEN << >>
    ELSE (IF intersects(translate(rects[i].rect, rects[i].translation), col_rect)
          THEN << rects[i].entity >> ELSE << >>)
         \o SensedRects(rects, i + 1, col_rect)

\* SensedBodies.world, read by set_player_state: the probe overlaps world
\* solidity (the field and its assignment are not in physics.rs)
SensedWorld(level) == level = "Some"

\* what detect_bodies inserts for sensor s: SensedBodies, or "Panic"
Sense(s) ==
    LET col_rect == translate(BodyRect, SensorTranslation(s))
        level == AnySolid(Worlds[world].project, tiles_to_check(col_rect), 1)
    IN  IF level = "Panic" THEN "Panic"
        ELSE Some([others |-> SensedRects(Worlds[world].rects, 1, col_rect)
                              \o (IF level = "Some" THEN << LevelEntityId >> ELSE << >>),
                   world |-> SensedWorld(level)])

\* detect_bodies without the project: return
DetectBodiesNoProject ==
    /\ pc = "phys"
    /\ "detect" \in todo
    /\ ~project_loaded
    /\ todo' = todo \ {"detect"}
    /\ pc' = AfterSystem(todo')
    /\ UNCHANGED << update_stage, world, project_loaded, physics_world, time_delta, accum, bodies, sensed,
                    player, queue, cur, sweep, start, swept, iters, ticks >>

\* fn detect_bodies
detect_bodies ==
    /\ pc = "phys"
    /\ "detect" \in todo
    /\ project_loaded
    /\ \A s \in Sensors : Sense(s) # "Panic"
    /\ sensed' = [s \in Sensors |-> Sense(s)]
    /\ todo' = todo \ {"detect"}
    /\ pc' = AfterSystem(todo')
    /\ UNCHANGED << update_stage, world, project_loaded, physics_world, time_delta, accum, bodies, player,
                    queue, cur, sweep, start, swept, iters, ticks >>

\* a tile lookup of detect_bodies panics
DetectBodiesPanic ==
    /\ pc = "phys"
    /\ "detect" \in todo
    /\ project_loaded
    /\ \E s \in Sensors : Sense(s) = "Panic"
    /\ pc' = "crashed"
    /\ UNCHANGED << update_stage, world, project_loaded, physics_world, time_delta, accum, bodies, sensed,
                    player, todo, queue, cur, sweep, start, swept, iters, ticks >>

(***************************************************************************)
(* set_player_state (player.rs), the Update stage                          *)
(***************************************************************************)
\* a faulty set_player_state: the side sensors are consulted before DOWN
NextPlayerState_SensorsFirst(sides) ==
    IF sensed[LeftSensorId] = None THEN "Panic"
    ELSE IF sensed[LeftSensorId][1].world THEN "SlidingLeft"
    ELSE IF sensed[RightSensorId] = None THEN "Panic"
    ELSE IF sensed[RightSensorId][1].world THEN "SlidingRight"
    ELSE IF "DOWN" \in sides THEN "Grounded"
    ELSE "Airborne"

\* the state set_player_state computes, "Panic" when a sensor has no SensedBodies
NextPlayerState(sides) ==
    IF "DOWN" \in sides THEN "Grounded"
    ELSE IF sensed[LeftSensorId] = None THEN "Panic"
    ELSE IF sensed[LeftSensorId][1].world THEN "SlidingLeft"
    ELSE IF sensed[RightSensorId] = None THEN "Panic"
    ELSE IF sensed[RightSensorId][1].world THEN "SlidingRight"
    ELSE "Airborne"

\* fn set_player_state, on_update(AppState::Playing); the query is empty until
\* KinematicCollisions is inserted
set_player_state ==
    /\ pc = "pre"
    /\ accum = 0
    /\ app_state.current = "Playing"
    /\ IF bodies[PlayerId].collisions = None
       THEN /\ player' = player
            /\ pc' = "frame"
       ELSE LET st == NextPlayerState(bodies[PlayerId].collisions[1]) IN
            IF st = "Panic"
            THEN /\ player' = player
                 /\ pc' = "crashed"
            ELSE /\ player' = [player EXCEPT !.state = st]
                 /\ pc' = "frame"
    /\ UNCHANGED << update_stage, world, project_loaded, physics_world, time_delta, accum, bodies, sensed,
                    todo, queue, cur, sweep, start, swept, iters, ticks >>

Next ==
    \/ LoadProject
    \/ BeginFrame
    \/ update_physics_world
    \/ MoveBodiesNoProject
    \/ MoveBodiesBegin
    \/ BodySkipped
    \/ BodyBegin
    \/ LoopFree
    \/ LoopBlockedX
    \/ LoopBlockedY
    \/ LoopCorner
    \/ LoopPanic
    \/ InsertCollisions
    \/ MoveBodiesEnd
    \/ DetectBodiesNoProject
    \/ detect_bodies
    \/ DetectBodiesPanic
    \/ set_player_state

Spec == Init /\ [][Next]_vars

(***************************************************************************)
(* Properties                                                              *)
(***************************************************************************)
\* body b was not colliding when the current move_bodies began
StartedFree(b) == swept[b] # "none" /\ is_colliding(b, start[b].translation) = "None"

\* the displacement move_bodies was asked for: velocity * delta_time at its start
Desired(b) == ToMove(start[b].velocity, start[b].delta_time)

\* C1: no tunneling.  A body that is not colliding (per is_colliding) when
\* move_bodies begins is not colliding after any resolved pass of the loop nor
\* when its sweep has ended: a colliding position after the move implies a
\* colliding position before it.
C1_NoTunneling ==
    \A b \in KinematicBodies :
        (pc # "crashed" /\ StartedFree(b)) => is_colliding(b, bodies[b].translation) = "None"

\* a sweep from a free position that was blocked and still moved the body
C1_Witness ==
    \E b \in KinematicBodies :
        /\ StartedFree(b)
        /\ swept[b] = "inserted"
        /\ bodies[b].collisions[1] # {}
        /\ bodies[b].translation # start[b].translation

\* the sides KinematicCollisions holds for b, the empty set without the component
Reported(b) == IF bodies[b].collisions = None THEN {} ELSE bodies[b].collisions[1]

\* C2: corner case.  A body whose sub-step collides, and still collides with
\* only X rolled back and with only Y rolled back, is back at its pre-step
\* position with velocity (0, 0), its sweep is over, and the KinematicCollisions
\* of the tick hold both the horizontal and the vertical side of its velocity.
C2_CornerReported ==
    \A b \in KinematicBodies :
        swept[b] = "corner" =>
            /\ bodies[b].translation = sweep.last_position
            /\ bodies[b].velocity = ZERO
            /\ pc \notin {"loop", "after"}
            /\ bodies[b].collisions # None
            /\ sweep.collisions \subseteq Reported(b)
            /\ Reported(b) \cap {"LEFT", "RIGHT"} # {}
            /\ Reported(b) \cap {"UP", "DOWN"} # {}

\* C3: zero input.  A body whose desired displacement is (0, 0) keeps its
\* position and velocity, and after the tick its KinematicCollisions hold no
\* side, whatever the previous tick reported.
C3_ZeroDeltaReportsNothing ==
    \A b \in KinematicBodies :
        swept[b] = "skipped" =>
            /\ bodies[b].translation = start[b].translation
            /\ bodies[b].velocity = start[b].velocity
            /\ Reported(b) = {}

\* the position of the current body after transform.translation += step
Stepped == VAdd(bodies[cur].translation, sweep.step)

\* the sub-step collides and rolling back only X clears the collision
XBlockCase ==
    /\ pc = "loop"
    /\ is_colliding(cur, Stepped) = "Some"
    /\ is_colliding(cur, <<bodies[cur].translation[1], Stepped[2]>>) = "None"

\* what C4 asks of a pass of the loop
XBlockStep ==
    /\ cur' = cur
    /\ sweep'.collisions =
          sweep.collisions \cup {IF bodies[cur].velocity[1] > 0 THEN "RIGHT" ELSE "LEFT"}
    /\ bodies'[cur].velocity = <<0, bodies[cur].velocity[2]>>
    /\ sweep'.to_move = <<0, sweep.to_move[2] - sweep.step[2]>>
    /\ bodies'[cur].translation = <<bodies[cur].translation[1], Stepped[2]>>
    /\ sweep'.to_move[2] # 0 =>
          /\ pc' = "loop"
          /\ sweep'.step[1] = 0
          /\ Sign(sweep'.step[2]) = Sign(sweep'.to_move[2])

\* C4: horizontal-only block.  When a sub-step collides and rolling back only
\* X clears the collision, the pass marks RIGHT if velocity.x > 0 and LEFT
\* otherwise, sets velocity.x to 0, drops the remaining X movement, keeps the
\* stepped Y position and velocity.y, and the loop goes on with the remaining
\* Y movement.
C4_HorizontalBlock == [][XBlockCase => XBlockStep]_vars

\* the loop goes on along Y right after a pass that was blocked on X
C4_Witness ==
    /\ pc = "loop"
    /\ "x" \in sweep.outcomes
    /\ sweep.step[1] = 0
    /\ sweep.to_move[2] # 0
    /\ bodies[cur].velocity[1] = 0
    /\ bodies[cur].velocity[2] # 0
    /\ bodies[cur].translation[1] = sweep.last_position[1]
    /\ bodies[cur].translation[2] # sweep.last_position[2]
    /\ sweep.collisions \cap {"LEFT", "RIGHT"} # {}

\* b began the current move_bodies free and falling straight down
FellStraightDown(b) ==
    /\ StartedFree(b)
    /\ start[b].velocity[1] = 0
    /\ start[b].velocity[2] < 0

\* the sub-step positions of b's fall, numbered from 1
FallPosition(b, n) ==
    VAdd(start[b].translation, <<0, n * calculate_delta_step(Desired(b))[2]>>)

\* the number of whole sub-steps in b's desired displacement
FallSteps(b) == Abs(Desired(b)[2]) \div Abs(calculate_delta_step(Desired(b))[2])

\* the sub-steps of b's fall for which the body would be colliding
FallHits(b) ==
    {n \in 1..FallSteps(b) : is_colliding(b, FallPosition(b, n)) = "Some"}

\* b fell straight down onto solid geometry and its sweep has ended
Landed(b) ==
    /\ pc # "crashed"
    /\ FellStraightDown(b)
    /\ Desired(b) # ZERO
    /\ FallHits(b) # {}
    /\ swept[b] = "inserted"

\* the least element of a non-empty set of numbers
Min(S) == CHOOSE n \in S : \A m \in S : n <= m

\* C5, the end of the tick: the body is at the last sub-step position before
\* the first colliding one, not colliding, with velocity.y = 0 and exactly DOWN.
C5_LandedState ==
    \A b \in KinematicBodies :
        Landed(b) =>
            /\ bodies[b].translation = FallPosition(b, Min(FallHits(b)) - 1)
            /\ is_colliding(b, bodies[b].translation) = "None"
            /\ \E d \in 1..MAX_STEP_LENGTH :
                  is_colliding(b, VAdd(bodies[b].translation, <<0, -d>>)) = "Some"
            /\ bodies[b].velocity[2] = 0
            /\ bodies[b].collisions = Some({"DOWN"})

\* C5, the next evaluation: set_player_state makes the player Grounded
C5_LandedStep ==
    (pc = "pre" /\ accum = 0 /\ Landed(PlayerId)) =>
        (pc' = "frame" /\ player'.state = "Grounded")

\* C5: landing.  A body falling straight down from a non-colliding position
\* onto solid geometry ends the tick at the last non-colliding sub-step
\* position, at most one sub-step above the first colliding one, with
\* velocity.y = 0 and exactly the side DOWN reported, and the player is
\* Grounded at the next evaluation of its state.
C5_Landing == [](C5_LandedState) /\ [][C5_LandedStep]_vars

\* the player has landed after falling and has been made Grounded
C5_Witness ==
    /\ pc = "frame"
    /\ Landed(PlayerId)
    /\ bodies[PlayerId].translation # start[PlayerId].translation
    /\ player.state = "Grounded"

\* the sides of the velocity b began the sweep with, for the axes it was blocked on
SidesHit(b) ==
    (IF "x" \in sweep.outcomes
     THEN {IF start[b].velocity[1] > 0 THEN "RIGHT" ELSE "LEFT"} ELSE {})
    \cup
    (IF "y" \in sweep.outcomes
     THEN {IF start[b].velocity[2] > 0 THEN "UP" ELSE "DOWN"} ELSE {})

\* C6: the sides are a union.  The KinematicCollisions inserted for a sweep
\* hold every side hit in any of its passes: a sweep blocked on one axis in
\* one pass and on the other axis in another reports both sides and has both
\* velocity components 0.
C6_SidesAreUnion ==
    swept[cur] = "inserted" =>
        /\ bodies[cur].collisions = Some(SidesHit(cur))
        /\ "x" \in sweep.outcomes => bodies[cur].velocity[1] = 0
        /\ "y" \in sweep.outcomes => bodies[cur].velocity[2] = 0

\* a sweep blocked by the wall in one pass and by the floor in another
C6_Witness ==
    /\ swept[cur] = "inserted"
    /\ {"x", "y"} \subseteq sweep.outcomes
    /\ bodies[cur].collisions = Some({"LEFT", "DOWN"})
    /\ bodies[cur].velocity = ZERO

\* ceil(|delta| / MAX_STEP_LENGTH)
CeilSteps(delta) ==
    LET n == ISqrt(LengthSquared(delta)) \div MAX_STEP_LENGTH
    IN  IF (n * MAX_STEP_LENGTH) * (n * MAX_STEP_LENGTH) >= LengthSquared(delta)
        THEN n ELSE n + 1

\* C7, the count: the passes of a sweep never exceed ceil(|delta| / 0.1),
\* and the loop is left before the count is used up
C7_BoundedPasses ==
    pc \in {"loop", "after"} =>
        /\ iters <= CeilSteps(Desired(cur))
        /\ pc = "loop" => iters < CeilSteps(Desired(cur))

\* C7, the variant: every pass strictly shortens the remaining displacement
C7_RemainingShrinks ==
    pc = "loop" => LengthSquared(sweep'.to_move) < LengthSquared(sweep.to_move)

RECURSIVE WhileLoop(_, _)
WhileLoop(entity, s) ==
    IF s.outcome \in {"corner", "panic"} \/ LoopEnds(s) THEN s
    ELSE WhileLoop(entity, LoopPass(entity, s))

\* the body of move_bodies' for loop for one body, on its own
MoveBody(entity, translation, velocity, dt) ==
    LET to_move == ToMove(velocity, dt) IN
    IF to_move = ZERO
    THEN [translation |-> translation, velocity |-> velocity, to_move |-> to_move,
          step |-> ZERO, collisions |-> {}, outcome |-> "skipped"]
    ELSE WhileLoop(entity, [translation |-> translation, velocity |-> velocity,
                            to_move |-> to_move, step |-> calculate_delta_step(to_move),
                            collisions |-> {}, outcome |-> "none"])

\* move_bodies is over for this tick
MoveBodiesOver ==
    /\ pc \in {"phys", "pre", "frame"}
    /\ "move" \notin todo
    /\ \A b \in KinematicBodies : swept[b] # "none"

\* C8: order independence.  When move_bodies is over, the position, velocity
\* and sides of every body are those of its own sweep from its own state at
\* the beginning of the tick against the snapshot, whatever the order of the
\* query and whatever happened to another body.
C8_OwnSweepOnly ==
    MoveBodiesOver =>
        \A b \in KinematicBodies :
            LET r == MoveBody(b, start[b].translation, start[b].velocity,
                              start[b].delta_time)
            IN  r.outcome # "panic" =>
                    /\ bodies[b].translation = r.translation
                    /\ bodies[b].velocity = r.velocity
                    /\ bodies[b].collisions =
                          (IF r.outcome \in {"skipped", "corner"}
                           THEN start[b].collisions ELSE Some(r.collisions))

\* b began the current move_bodies free, with a diagonal displacement, its
\* sweep has ended, and exactly one axis was blocked in it
OneAxisBlocked(b) ==
    /\ pc # "crashed"
    /\ StartedFree(b)
    /\ Desired(b)[1] # 0
    /\ Desired(b)[2] # 0
    /\ b = cur
    /\ swept[b] = "inserted"
    /\ Cardinality(sweep.outcomes \cap {"x", "y"}) = 1

\* the sweep of b by (dx, 0) from where it began this tick
SweepAlongX(b) ==
    MoveBody(b, start[b].translation, <<start[b].velocity[1], 0>>, start[b].delta_time)

\* the sweep of b by (0, dy) from where the sweep by (dx, 0) left it
SweepAlongXThenY(b) ==
    MoveBody(b, SweepAlongX(b).translation, <<0, start[b].velocity[2]>>,
             start[b].delta_time)

\* C9: axis independence.  A diagonal sweep from a free position in which
\* exactly one axis is blocked ends where the sweep by (dx, 0) followed by
\* the sweep by (0, dy) ends, reports the same sides, and has moved the body
\* by the whole component of the open axis.
C9_AxisIndependence ==
    \A b \in KinematicBodies :
        (/\ OneAxisBlocked(b)
         /\ SweepAlongX(b).outcome # "panic"
         /\ SweepAlongXThenY(b).outcome # "panic") =>
            /\ bodies[b].translation = SweepAlongXThenY(b).translation
            /\ Reported(b) = SweepAlongX(b).collisions \cup SweepAlongXThenY(b).collisions
            /\ "x" \in sweep.outcomes =>
                  bodies[b].translation[2] = start[b].translation[2] + Desired(b)[2]
            /\ "y" \in sweep.outcomes =>
                  bodies[b].translation[1] = start[b].translation[1] + Desired(b)[1]

(***************************************************************************)
(* Player::try_move (main.rs), the mover of the standalone game            *)
(***************************************************************************)
\* one pass of try_move's while loop from the fields and locals s, with the
\* collision predicate of move_bodies in the place of self.is_colliding(level)
TryMovePass(entity, s) ==
    LET last_position == s.position
        stepped == VAdd(s.position, s.step)
        to_move == VSub(s.to_move, s.step)
        c1 == is_colliding(entity, stepped)
        back_x == <<last_position[1], stepped[2]>>
        c2 == is_colliding(entity, back_x)
        back_y == <<back_x[1] + s.step[1], last_position[2]>>
        c3 == is_colliding(entity, back_y)
        after_x == <<0, to_move[2]>>
        after_y == <<to_move[1], 0>>
    IN  IF c1 = "Panic" THEN [s EXCEPT !.position = stepped, !.to_move = to_move,
                                       !.outcome = "panic"]
        ELSE IF c1 = "None"
        THEN [s EXCEPT !.position = stepped, !.to_move = to_move, !.outcome = "free"]
        ELSE IF c2 = "Panic" THEN [s EXCEPT !.position = back_x, !.to_move = to_move,
                                            !.outcome = "panic"]
        ELSE IF c2 = "None"
        THEN [s EXCEPT !.position = back_x, !.velocity = <<0, s.velocity[2]>>,
                       !.hugging_wall = TRUE, !.to_move = after_x,
                       !.step = IF after_x = ZERO THEN s.step
                                ELSE calculate_delta_step(after_x),
                       !.outcome = "x"]
        ELSE IF c3 = "Panic" THEN [s EXCEPT !.position = back_y, !.to_move = to_move,
                                            !.outcome = "panic"]
        ELSE IF c3 = "None"
        THEN [s EXCEPT !.position = back_y, !.velocity = <<s.velocity[1], 0>>,
                       !.grounded = TRUE, !.to_move = after_y,
                       !.step = IF after_y = ZERO THEN s.step
                                ELSE calculate_delta_step(after_y),
                       !.outcome = "y"]
        ELSE [s EXCEPT !.position = last_position, !.grounded = TRUE,
                       !.hugging_wall = TRUE, !.to_move = to_move, !.outcome = "corner"]

\* try_move's while loop: the return, the break, or the loop condition ends it
RECURSIVE TryMoveLoop(_, _)
TryMoveLoop(entity, s) ==
    IF \/ s.outcome \in {"corner", "panic"}
       \/ s.outcome \in {"x", "y"} /\ s.to_move = ZERO
       \/ LengthSquared(s.to_move) < LengthSquared(s.step)
    THEN s
    ELSE TryMoveLoop(entity, TryMovePass(entity, s))

\* fn try_move, called after reset_frame_state
try_move(entity, position, velocity, to_move) ==
    LET s == [position |-> position, velocity |-> velocity, grounded |-> FALSE,
              hugging_wall |-> FALSE, to_move |-> to_move, step |-> ZERO,
              outcome |-> "none"]
    IN  IF to_move[1] = 0 /\ to_move[2] = 0 THEN s
        ELSE TryMoveLoop(entity, [s EXCEPT !.step = calculate_delta_step(to_move)])

\* C10: the two movers agree.  From the same position, velocity, displacement
\* and collision predicate, move_bodies leaves a body with the position and
\* the velocity try_move ends with, the corner case included.
C10_MoversAgree ==
    \A b \in KinematicBodies :
        (pc # "crashed" /\ swept[b] \in {"skipped", "inserted", "corner"}) =>
            LET r == try_move(b, start[b].translation, start[b].velocity, Desired(b))
            IN  r.outcome # "panic" =>
                    /\ bodies[b].translation = r.position
                    /\ bodies[b].velocity = r.velocity

(***************************************************************************)
(* The Update stage of the player (player.rs, time.rs)                     *)
(***************************************************************************)
\* frames of a behaviour of PlayerSpec
MaxFrames == 3
\* longest time in AppState::Playing of a behaviour of PlayerSpec, in 1/60 s
MaxTime == 15

\* Time::delta of the frames of PlayerSpec, in 1/60 s: a frame of 1/20 s, or
\* one of 3/20 s
FrameDeltas == {3, 9}

\* time spent in AppState::Loading before the first Playing frame, in 1/60 s
LoadingTimes == {0, 6}

\* the PlayerProperties the player can be set up with
PropertiesSet ==
    {DefaultProperties,
     [DefaultProperties EXCEPT !.jumps_available = 1],
     [DefaultProperties EXCEPT !.wallslide_max_v_speed = None, !.can_walljump = FALSE]}

\* the states of the action Down the frames draw from: the systems read it
\* through is_pressed only
DownStates == {"Released", "Held"}

\* the values of the axis Horizontal the frames draw from: the stick is at rest
HorizontalValues == {0}

\* the resources and components the physics stage alone works on
physics_stage ==
    << world, project_loaded, physics_world, accum, queue, cur, sweep, start, swept, iters,
       ticks >>

\* the state of a trigger in the next frame: press, finish_frame, release
NextActionState(a) ==
    IF is_pressed(a) THEN {"Held", "JustReleased"} ELSE {"Released", "JustPressed"}

\* a rate per second applied for delta, the frame time in 1/60 s
PerDelta(rate, delta) == TruncDiv(rate * delta, SecondDen)

\* f32::signum: 1.0 for +0.0 and above, -1.0 below
signum(x) == IF x < 0 THEN -1 ELSE 1

\* f32::clamp
clamp(x, min, max) == IF x < min THEN min ELSE IF x > max THEN max ELSE x

\* matches!(state, State::Sliding { .. })
Sliding(state) == state \in {"SlidingLeft", "SlidingRight"}

\* velocity.y -= (jump_gravity or gravity) * delta
ApplyGravity(vy, pressing_jump, delta) ==
    vy - PerDelta(IF pressing_jump /\ vy > 0 THEN jump_gravity ELSE gravity, delta)

\* a faulty update_player: no clamp to terminal_speed
TerminalClamp_Missing(vy) == vy

\* the clamp of velocity.y to terminal_speed
TerminalClamp(vy) ==
    IF Abs(vy) > terminal_speed THEN terminal_speed * signum(vy) ELSE vy

\* a faulty update_player: no clamp while sliding
WallslideClamp_Missing(p, vy) == vy

\* f32::clamp asserts min <= max: the clamp while sliding panics for a
\* negative wallslide_max_v_speed
UpdatePlayerPanics(p) ==
    /\ Sliding(p.state)
    /\ p.properties.wallslide_max_v_speed # None
    /\ ~(-p.properties.wallslide_max_v_speed[1] <= p.properties.wallslide_max_v_speed[1])

\* the clamp of velocity.y while sliding down a wall
WallslideClamp(p, vy) ==
    IF Sliding(p.state) /\ p.properties.wallslide_max_v_speed # None
    THEN clamp(vy, -p.properties.wallslide_max_v_speed[1], p.properties.wallslide_max_v_speed[1])
    ELSE vy

\* let decceleration = match player.state { .. } * delta
Decceleration(state, delta) ==
    PerDelta(IF state = "Grounded" THEN ground_decceleration
             ELSE IF state = "Airborne" THEN air_decceleration
             ELSE 0, delta)

\* let acceleration = if x_input.signum() != velocity.x.signum() { .. } else { .. } * delta
Acceleration(state, x_input, vx, delta) ==
    PerDelta(IF signum(x_input) # signum(vx)
             THEN (IF state = "Grounded" THEN ground_direction_change_acceleration
                   ELSE air_direction_change_acceleration)
             ELSE (IF state = "Grounded" THEN ground_acceleration ELSE air_acceleration),
             delta)

\* the horizontal part of update_player: decceleration, or acceleration
\* outside the dead time of a wall jump
Horizontal(p, vx, x_input, unpaused_time, delta) ==
    IF x_input = 0
    THEN LET decceleration == Decceleration(p.state, delta) IN
         IF Abs(vx) > decceleration
         THEN (IF vx > 0 THEN vx - decceleration ELSE vx + decceleration)
         ELSE 0
    ELSE IF unpaused_time > p.last_walljump_time + dead_time_after_walljump
    THEN LET v == vx + x_input * Acceleration(p.state, x_input, vx, delta) IN
         IF Abs(v) > max_run_speed THEN max_run_speed * signum(v) ELSE v
    ELSE vx

\* a faulty bookkeeping: no coyote window, an Airborne player that has not
\* jumped loses the charge at once
Bookkeeping_NoCoyote(p, unpaused_time, time_since_startup) ==
    IF p.state = "Grounded"
    THEN [p EXCEPT !.can_jump = IF p.properties.jumps_available > 0 THEN TRUE ELSE @,
                   !.times_jumped_since_grounded = 0,
                   !.last_grounded_time = time_since_startup]
    ELSE IF p.state = "Airborne" /\ p.times_jumped_since_grounded = 0
    THEN IF p.properties.jumps_available = 1
         THEN [p EXCEPT !.can_jump = FALSE]
         ELSE [p EXCEPT !.times_jumped_since_grounded = @ + 1]
    ELSE p

\* a faulty bookkeeping: Grounded does not re-arm can_jump
Bookkeeping_NoRearm(p, unpaused_time, time_since_startup) ==
    IF p.state = "Grounded"
    THEN [p EXCEPT !.times_jumped_since_grounded = 0,
                   !.last_grounded_time = time_since_startup]
    ELSE IF /\ p.state = "Airborne"
            /\ p.times_jumped_since_grounded = 0
            /\ unpaused_time > p.last_grounded_time + coyote_time
    THEN IF p.properties.jumps_available = 1
         THEN [p EXCEPT !.can_jump = FALSE]
         ELSE [p EXCEPT !.times_jumped_since_grounded = @ + 1]
    ELSE p

\* match player.state { Grounded => .., Airborne if .. => .., _ => () }
Bookkeeping(p, unpaused_time, time_since_startup) ==
    IF p.state = "Grounded"
    THEN [p EXCEPT !.can_jump = IF p.properties.jumps_available > 0 THEN TRUE ELSE @,
                   !.times_jumped_since_grounded = 0,
                   !.last_grounded_time = time_since_startup]
    ELSE IF /\ p.state = "Airborne"
            /\ p.times_jumped_since_grounded = 0
            /\ unpaused_time > p.last_grounded_time + coyote_time
    THEN IF p.properties.jumps_available = 1
         THEN [p EXCEPT !.can_jump = FALSE]
         ELSE [p EXCEPT !.times_jumped_since_grounded = @ + 1]
    ELSE p

\* a faulty match: the regular jump is tried before the wall jump
JumpArm_JumpFirst(p) ==
    IF ~p.pressed_jump THEN "none"
    ELSE IF p.can_jump THEN "jump"
    ELSE IF p.properties.can_walljump /\ Sliding(p.state) THEN "walljump"
    ELSE "none"

\* the arm of match (can_walljump, state) a pending jump takes
JumpArm(p) ==
    IF ~p.pressed_jump THEN "none"
    ELSE IF p.properties.can_walljump /\ Sliding(p.state) THEN "walljump"
    ELSE IF p.can_jump THEN "jump"
    ELSE "none"

\* a faulty impulse: no falloff
JumpImpulse_NoFalloff(n) == jump_force

\* jump_force * multijump_coefficient.powi(n)
JumpImpulse(n) == (jump_force * multijump_coefficient[1]^n) \div multijump_coefficient[2]^n

\* the arm (true, Sliding { side })
WallJump(p, velocity, unpaused_time) ==
    [player |-> [p EXCEPT !.pressed_jump = FALSE, !.last_walljump_time = unpaused_time],
     velocity |-> << IF p.state = "SlidingLeft" THEN walljump_horizontal_force
                     ELSE -walljump_horizontal_force,
                     walljump_vertical_force >>]

\* the arm _ if player.can_jump
Jump(p, velocity) ==
    LET times == p.times_jumped_since_grounded + 1 IN
    [player |-> [p EXCEPT !.pressed_jump = FALSE,
                          !.times_jumped_since_grounded = times,
                          !.can_jump = IF p.properties.jumps_available <= times
                                       THEN FALSE ELSE @],
     velocity |-> << velocity[1], JumpImpulse(p.times_jumped_since_grounded) >>]

\* if player.pressed_jump { match .. ; reset the jump buffer if appropriate }
Jumping(p, velocity, unpaused_time) ==
    LET arm == JumpArm(p)
        r == IF arm = "walljump" THEN WallJump(p, velocity, unpaused_time)
             ELSE IF arm = "jump" THEN Jump(p, velocity)
             ELSE [player |-> p, velocity |-> velocity]
    IN  IF p.pressed_jump /\ unpaused_time > p.jump_pressed_time + jump_buffer_time
        THEN [r EXCEPT !.player.pressed_jump = FALSE]
        ELSE r

\* the body of update_player: the Player and the Velocity it leaves
UpdatePlayer(p, velocity, inp, delta, unpaused_time, time_since_startup) ==
    LET pressing_down == is_pressed(inp.Down)
        pressing_jump == ~pressing_down /\ is_pressed(inp.Jump)
        vy == WallslideClamp(p, TerminalClamp(ApplyGravity(velocity[2], pressing_jump, delta)))
        vx == Horizontal(p, velocity[1], inp.Horizontal, unpaused_time, delta)
    IN  Jumping(Bookkeeping(p, unpaused_time, time_since_startup), << vx, vy >>, unpaused_time)

\* the first frame in AppState::Playing begins after the loading time
PlayerInit ==
    /\ world = "Room"
    /\ project_loaded = TRUE
    /\ physics_world = << >>
    /\ time_delta = 0
    /\ accum = 0
    /\ bodies = [b \in KinematicBodies |->
                    [translation |-> IF b = PlayerId THEN << 2 * Unit, 2 * Unit >>
                                     ELSE << 2 * Unit, 6 * Unit >>,
                     velocity |-> ZERO, collisions |-> None,
                     pass_through_platforms |-> FALSE]]
    /\ sensed = [s \in Sensors |-> None]
    /\ player \in {PlayerDefault(properties) : properties \in PropertiesSet}
    /\ input = InputDefault
    /\ startup \in LoadingTimes
    /\ gameplay_time = 0
    /\ hist = NoHistory
    /\ mapper = InputMapperDefault
    /\ pressing = NoEvents
    /\ app_state = AppStatePlaying
    /\ paused = FALSE
    /\ pc = "frame"
    /\ todo = {}
    /\ queue = << >>
    /\ cur = PlayerId
    /\ sweep = [to_move |-> ZERO, step |-> ZERO, collisions |-> {},
                last_position |-> ZERO, outcomes |-> {}]
    /\ start = [b \in KinematicBodies |->
                    [translation |-> ZERO, velocity |-> ZERO, collisions |-> None,
                     delta_time |-> 0]]
    /\ swept = [b \in KinematicBodies |-> "none"]
    /\ iters = 0
    /\ ticks = 0

\* a frame begins: Time::update, and upload_input fills the Input resource
NextFrame ==
    /\ pc = "frame"
    /\ todo = {}
    /\ hist.frames < MaxFrames
    /\ \E dt \in FrameDeltas :
         /\ gameplay_time + dt <= MaxTime
         /\ time_delta' = dt
         /\ startup' = startup + dt
    /\ \E jump \in NextActionState(input.Jump), down \in DownStates,
          horizontal \in HorizontalValues :
         input' = [Jump |-> jump, Down |-> down, Pause |-> "Released",
                   Horizontal |-> horizontal]
    /\ hist' = [hist EXCEPT !.frames = @ + 1]
    /\ pc' = "stage"
    /\ UNCHANGED << physics_stage, bodies, sensed, player, todo, gameplay_time, mapper,
                    pressing, app_state, paused >>

\* what the physics ticks of the frame leave on the player: move_bodies zeroes
\* the velocity on every axis it found blocked and inserts the sides of its
\* last sweep (none when the body had nothing to move), detect_bodies inserts
\* the SensedBodies of the two side sensors; the level decides which
PhysicsStage ==
    /\ pc = "stage"
    /\ LET velocity == bodies[PlayerId].velocity IN
       \E blocked_x \in BOOLEAN, blocked_y \in BOOLEAN, sides \in SUBSET CollisionSide :
         /\ blocked_x => velocity[1] # 0
         /\ blocked_y => velocity[2] # 0
         /\ sides \subseteq (IF blocked_x THEN {HorizontalSide(velocity)} ELSE {})
                            \cup (IF blocked_y THEN {VerticalSide(velocity)} ELSE {})
         /\ bodies' = [bodies EXCEPT
                ![PlayerId].velocity = << IF blocked_x THEN 0 ELSE velocity[1],
                                          IF blocked_y THEN 0 ELSE velocity[2] >>,
                ![PlayerId].collisions =
                    IF ToMove(velocity, time_delta) = ZERO THEN @ ELSE Some(sides)]
    /\ \E left \in BOOLEAN, right \in BOOLEAN :
         sensed' = [s \in Sensors |->
                      Some([others |-> << >>,
                            world |-> IF s = LeftSensorId THEN left ELSE right])]
    /\ todo' = {"tick_gameplay_time", "update_jump", "update_player"}
    /\ pc' = "pre"
    /\ UNCHANGED << physics_stage, time_delta, player, update_stage >>

\* fn tick_gameplay_time (time.rs): unordered among the systems of the stage.
\* set_player_state reads and writes nothing that tick_gameplay_time and
\* update_jump read or write, so it is taken first
tick_gameplay_time ==
    /\ pc = "frame"
    /\ "tick_gameplay_time" \in todo
    /\ app_state.current = "Playing"
    /\ gameplay_time' = IF paused THEN gameplay_time ELSE gameplay_time + time_delta
    /\ todo' = todo \ {"tick_gameplay_time"}
    /\ UNCHANGED << physics_stage, time_delta, bodies, sensed, player, pc, input, startup,
                    hist, mapper, pressing,
                    app_state, paused >>

\* fn update_jump: before update_player
update_jump ==
    /\ pc = "frame"
    /\ "update_jump" \in todo
    /\ app_state.current = "Playing"
    /\ player' = IF ~is_pressed(input.Down) /\ input.Jump = "JustPressed"
                 THEN [player EXCEPT !.pressed_jump = TRUE,
                                     !.jump_pressed_time = gameplay_time]
                 ELSE player
    /\ todo' = todo \ {"update_jump"}
    /\ UNCHANGED << physics_stage, time_delta, bodies, sensed, pc, update_stage >>

\* fn update_player: after set_player_state and update_jump
update_player ==
    /\ pc = "frame"
    /\ "update_player" \in todo
    /\ "update_jump" \notin todo
    /\ app_state.current = "Playing"
    /\ ~UpdatePlayerPanics(player)
    /\ LET before == Bookkeeping(player, gameplay_time, startup)
           r == UpdatePlayer(player, bodies[PlayerId].velocity, input, time_delta,
                             gameplay_time, startup)
           arm == JumpArm(before)
       IN  /\ player' = r.player
           /\ bodies' = [bodies EXCEPT
                  ![PlayerId].velocity = r.velocity,
                  ![PlayerId].pass_through_platforms =
                      is_pressed(input.Down) /\ is_pressed(input.Jump)]
           /\ hist' = [jump |-> arm,
                       n |-> before.times_jumped_since_grounded,
                       at |-> gameplay_time,
                       pressed_at |-> player.jump_pressed_time,
                       state |-> player.state,
                       jumps |-> (IF player.state = "Grounded" THEN 0 ELSE hist.jumps)
                                 + (IF arm = "jump" THEN 1 ELSE 0),
                       grounded_at |-> IF player.state = "Grounded" THEN gameplay_time
                                       ELSE hist.grounded_at,
                       frames |-> hist.frames,
                       velocity |-> bodies[PlayerId].velocity,
                       walljumped |-> hist.walljumped \/ arm = "walljump",
                       app |-> hist.app,
                       ticked |-> hist.ticked,
                       impulses |-> (IF hist.ticked /\ bodies[PlayerId].collisions # None
                                        /\ "DOWN" \in bodies[PlayerId].collisions[1]
                                     THEN 0 ELSE hist.impulses)
                                    + (IF arm = "jump" THEN 1 ELSE 0)]
    /\ todo' = todo \ {"update_player"}
    /\ UNCHANGED << physics_stage, time_delta, sensed, pc, input, startup, gameplay_time,
                    mapper, pressing, app_state, paused >>

PlayerNext ==
    \/ NextFrame
    \/ PhysicsStage
    \/ set_player_state
    \/ tick_gameplay_time
    \/ update_jump
    \/ update_player

PlayerSpec == PlayerInit /\ [][PlayerNext]_vars

(***************************************************************************)
(* The Update stage with the stick in use                                  *)
(***************************************************************************)
\* the values of the axis Horizontal of a digital joystick
StickValues == {-1, 0, 1}

\* Time::delta of the frames of RunSpec, in 1/60 s: a frame of 1/20 s, or one
\* of 1/4 s
RunDeltas == {3, 15}

\* longest time in AppState::Playing of a behaviour of RunSpec, in 1/60 s:
\* past the dead time that follows last_walljump_time = 0, a short frame and
\* a long one
MaxRunTime == 33

\* the player runs with the DefaultProperties from the first Playing frame
RunInit ==
    /\ PlayerInit
    /\ player = PlayerDefault(DefaultProperties)
    /\ startup = 0

\* a frame begins: Time::update, and upload_input fills the Input resource
\* with the stick anywhere and Down released
RunFrame ==
    /\ pc = "frame"
    /\ todo = {}
    /\ hist.frames < MaxFrames
    /\ \E dt \in RunDeltas :
         /\ gameplay_time + dt <= MaxRunTime
         /\ time_delta' = dt
         /\ startup' = startup + dt
    /\ \E jump \in NextActionState(input.Jump), horizontal \in StickValues :
         input' = [Jump |-> jump, Down |-> "Released", Pause |-> "Released",
                   Horizontal |-> horizontal]
    /\ hist' = [hist EXCEPT !.frames = @ + 1]
    /\ pc' = "stage"
    /\ UNCHANGED << physics_stage, bodies, sensed, player, todo, gameplay_time, mapper,
                    pressing, app_state, paused >>

RunNext ==
    \/ RunFrame
    \/ PhysicsStage
    \/ set_player_state
    \/ tick_gameplay_time
    \/ update_jump
    \/ update_player

RunSpec == RunInit /\ [][RunNext]_vars

(***************************************************************************)
(* The Update stage with the properties retuned between ticks              *)
(***************************************************************************)
\* the PlayerProperties an editor can put in place of the current ones
TuningSet ==
    {DefaultProperties,
     [DefaultProperties EXCEPT !.jumps_available = 0],
     [DefaultProperties EXCEPT !.wallslide_max_v_speed = Some(-15 * Unit)]}

\* the properties are swapped between two ticks
swap_properties ==
    /\ pc = "frame"
    /\ todo = {}
    /\ \E properties \in TuningSet \ {player.properties} :
         player' = [player EXCEPT !.properties = properties]
    /\ UNCHANGED << physics_stage, time_delta, bodies, sensed, pc, todo, update_stage >>

\* update_player panics in f32::clamp
update_player_panics ==
    /\ pc = "frame"
    /\ "update_player" \in todo
    /\ "update_jump" \notin todo
    /\ app_state.current = "Playing"
    /\ UpdatePlayerPanics(player)
    /\ pc' = "crashed"
    /\ UNCHANGED << physics_stage, time_delta, bodies, sensed, player, todo, update_stage >>

TuningNext ==
    \/ NextFrame
    \/ swap_properties
    \/ PhysicsStage
    \/ set_player_state
    \/ tick_gameplay_time
    \/ update_jump
    \/ update_player
    \/ update_player_panics

TuningSpec == RunInit /\ [][TuningNext]_vars

(***************************************************************************)
(* The input mapper (input_mapper.rs)                                      *)
(***************************************************************************)
\* AnalogTrigger
DigitalJoystick(negative, positive) ==
    [kind |-> "DigitalJoystick", negative |-> negative, positive |-> positive]
GamepadAxis(axis) == [kind |-> "GamepadAxis", axis |-> axis]

\* InputMappings::default
InputMappingsDefault ==
    [actions |-> [Jump |-> [primary |-> "Space", secondary |-> Some("South")]],
     axes |-> [Horizontal |-> [primary |-> DigitalJoystick("A", "D"), secondary |-> None]]]

\* the InputMappings a mappings file can hold: the default, one with a stick
\* behind the keys, one with the keys behind a stick
MappingsSet ==
    {InputMappingsDefault,
     [actions |-> [Jump |-> [primary |-> "Space", secondary |-> None]],
      axes |-> [Horizontal |-> [primary |-> DigitalJoystick("A", "D"),
                                secondary |-> Some(GamepadAxis("LeftStickX"))]]],
     [actions |-> [Jump |-> [primary |-> "South", secondary |-> Some("Space")]],
      axes |-> [Horizontal |-> [primary |-> GamepadAxis("LeftStickX"),
                                secondary |-> Some(DigitalJoystick("A", "D"))]]]}

\* a faulty press: a held trigger is pressed anew
press_Again(r, trigger) == [r EXCEPT !.just_pressed = @ \cup {trigger}]

\* fn press
press(r, trigger) ==
    IF trigger \notin r.held THEN [r EXCEPT !.just_pressed = @ \cup {trigger}] ELSE r

\* fn release
release(r, trigger) ==
    [r EXCEPT !.held = @ \ {trigger}, !.just_released = @ \cup {trigger}]

\* what a ButtonChanged value is to the ButtonSettings
ButtonLevels == {"above press", "below release", "between"}

\* fn update_gamepad_button
update_gamepad_button(r, b, level) ==
    IF level = "above press" THEN (IF b \notin r.held THEN press(r, b) ELSE r)
    ELSE IF level = "below release" THEN (IF b \in r.held THEN release(r, b) ELSE r)
    ELSE r

\* what an AxisChanged value is to the AxisSettings: beyond positive_high,
\* beyond negative_high, or inside the dead zone
AxisLevels == {"positive_high", "negative_high", "dead zone"}

\* fn update_gamepad_axis
update_gamepad_axis(r, a, level) ==
    LET val == IF level = "positive_high" THEN 1
               ELSE IF level = "negative_high" THEN -1 ELSE 0
    IN  [r EXCEPT !.axis_values =
            [x \in DOMAIN r.axis_values \cup {a} |-> IF x = a THEN val ELSE r.axis_values[x]]]

\* fn finish_frame
finish_frame(r) ==
    [r EXCEPT !.held = @ \cup r.just_pressed, !.just_pressed = {}, !.just_released = {}]

\* fn digital_trigger_state
digital_trigger_state(r, trigger) ==
    IF trigger \in r.held THEN "Held"
    ELSE IF trigger \in r.just_pressed THEN "JustPressed"
    ELSE IF trigger \in r.just_released THEN "JustReleased"
    ELSE "Released"

\* a faulty analog_trigger_state: a joystick with both sides pressed reads 0
\* and hides the secondary trigger
analog_trigger_state_Zero(r, trigger) ==
    IF trigger.kind = "DigitalJoystick"
    THEN LET is_negative_pressed == is_pressed(digital_trigger_state(r, trigger.negative))
             is_positive_pressed == is_pressed(digital_trigger_state(r, trigger.positive))
         IN  IF is_negative_pressed /\ ~is_positive_pressed THEN Some(-1)
             ELSE IF ~is_negative_pressed /\ is_positive_pressed THEN Some(1)
             ELSE IF is_negative_pressed THEN Some(0)
             ELSE None
    ELSE LET val == IF trigger.axis \in DOMAIN r.axis_values
                    THEN r.axis_values[trigger.axis] ELSE 0
         IN  IF val = 0 THEN None ELSE Some(val)

\* fn analog_trigger_state
analog_trigger_state(r, trigger) ==
    IF trigger.kind = "DigitalJoystick"
    THEN LET is_negative_pressed == is_pressed(digital_trigger_state(r, trigger.negative))
             is_positive_pressed == is_pressed(digital_trigger_state(r, trigger.positive))
         IN  IF is_negative_pressed /\ ~is_positive_pressed THEN Some(-1)
             ELSE IF ~is_negative_pressed /\ is_positive_pressed THEN Some(1)
             ELSE None
    ELSE LET val == IF trigger.axis \in DOMAIN r.axis_values
                    THEN r.axis_values[trigger.axis] ELSE 0
         IN  IF val = 0 THEN None ELSE Some(val)

\* #[derive(PartialOrd, Ord)] on ActionState: the order of the variants
ActionStateOrd(a) ==
    IF a = "Released" THEN 0
    ELSE IF a = "JustReleased" THEN 1
    ELSE IF a = "JustPressed" THEN 2
    ELSE 3

\* a faulty fallback: the secondary trigger is not read
ActionValue_PrimaryOnly(r, bindings) == digital_trigger_state(r, bindings.primary)

\* upload_input: the state of an action, primary.max(secondary)
ActionValue(r, bindings) ==
    LET primary == digital_trigger_state(r, bindings.primary) IN
    IF bindings.secondary # None
    THEN LET secondary == digital_trigger_state(r, bindings.secondary[1]) IN
         IF ActionStateOrd(secondary) >= ActionStateOrd(primary) THEN secondary ELSE primary
    ELSE primary

\* upload_input: the value of an axis, primary.or_else(secondary).unwrap_or_default()
AxisValue(r, bindings) ==
    LET primary == analog_trigger_state(r, bindings.primary)
        secondary == IF bindings.secondary # None
                     THEN analog_trigger_state(r, bindings.secondary[1]) ELSE None
    IN  IF primary # None THEN primary[1]
        ELSE IF secondary # None THEN secondary[1]
        ELSE 0

\* everything the input mapper neither reads nor writes
game_stage ==
    << physics_stage, time_delta, bodies, sensed, player, todo, startup, gameplay_time, hist,
       app_state, paused >>

\* the app starts: no mappings loaded, nothing pressed, the events of the
\* first frame are about to be read
InputInit ==
    /\ world = "Room"
    /\ project_loaded = FALSE
    /\ physics_world = << >>
    /\ time_delta = 0
    /\ accum = 0
    /\ bodies = [b \in KinematicBodies |->
                    [translation |-> IF b = PlayerId THEN << 2 * Unit, 2 * Unit >>
                                     ELSE << 2 * Unit, 6 * Unit >>,
                     velocity |-> ZERO, collisions |-> None,
                     pass_through_platforms |-> FALSE]]
    /\ sensed = [s \in Sensors |-> None]
    /\ player = PlayerDefault(DefaultProperties)
    /\ input = InputDefault
    /\ startup = 0
    /\ gameplay_time = 0
    /\ hist = NoHistory
    /\ mapper = InputMapperDefault
    /\ pressing = NoEvents
    /\ app_state = AppStatePlaying
    /\ paused = FALSE
    /\ pc = "events"
    /\ todo = {}
    /\ queue = << >>
    /\ cur = PlayerId
    /\ sweep = [to_move |-> ZERO, step |-> ZERO, collisions |-> {},
                last_position |-> ZERO, outcomes |-> {}]
    /\ start = [b \in KinematicBodies |->
                    [translation |-> ZERO, velocity |-> ZERO, collisions |-> None,
                     delta_time |-> 0]]
    /\ swept = [b \in KinematicBodies |-> "none"]
    /\ iters = 0
    /\ ticks = 0

\* the asset server finishes loading the InputMappings the handle points at
load_mappings ==
    /\ mapper.mappings = None
    /\ \E mappings \in MappingsSet : mapper' = [mapper EXCEPT !.mappings = Some(mappings)]
    /\ UNCHANGED << game_stage, pc, input, pressing >>

\* the history of a trigger after a press event and after a release event
PressEvent(e) == [e EXCEPT !.down = IF @ = 0 THEN 1 ELSE @]
ReleaseEvent(e) == [down |-> 0, released |-> TRUE]

\* fn update_keyboard_input, one KeyboardInput event of the frame
update_keyboard_input ==
    /\ pc = "events"
    /\ \E keycode \in Keys :
         \/ /\ mapper' = [mapper EXCEPT !.trigger_record = press(@, keycode)]
            /\ pressing' = [pressing EXCEPT ![keycode] = PressEvent(@)]
         \/ /\ mapper' = [mapper EXCEPT !.trigger_record = release(@, keycode)]
            /\ pressing' = [pressing EXCEPT ![keycode] = ReleaseEvent(@)]
    /\ UNCHANGED << game_stage, pc, input >>

\* fn update_gamepad_input, one GamepadEvent of the frame
update_gamepad_input ==
    /\ pc = "events"
    /\ \/ \E button \in GamepadButtons, level \in ButtonLevels :
            /\ mapper' = [mapper EXCEPT
                   !.trigger_record = update_gamepad_button(@, button, level)]
            /\ pressing' = [pressing EXCEPT ![button] =
                   IF level = "above press" THEN PressEvent(@)
                   ELSE IF level = "below release" THEN ReleaseEvent(@)
                   ELSE @]
       \/ \E axis \in GamepadAxes, level \in AxisLevels :
            /\ mapper' = [mapper EXCEPT
                   !.trigger_record = update_gamepad_axis(@, axis, level)]
            /\ UNCHANGED pressing
    /\ UNCHANGED << game_stage, pc, input >>

\* fn upload_input: after the systems that read the events
upload_input ==
    /\ pc = "events"
    /\ input' =
         IF mapper.mappings = None THEN input
         ELSE LET mappings == mapper.mappings[1] IN
              [input EXCEPT
                 !.Horizontal = AxisValue(mapper.trigger_record, mappings.axes.Horizontal),
                 !.Jump = ActionValue(mapper.trigger_record, mappings.actions.Jump)]
    /\ pc' = "update"
    /\ UNCHANGED << game_stage, mapper, pressing >>

\* fn update_trigger_record: in CoreStage::Last
update_trigger_record ==
    /\ pc = "update"
    /\ mapper' = [mapper EXCEPT !.trigger_record = finish_frame(@)]
    /\ pressing' = [t \in DigitalTriggers |->
                      [down |-> IF pressing[t].down = 0 THEN 0 ELSE 2, released |-> FALSE]]
    /\ pc' = "events"
    /\ UNCHANGED << game_stage, input >>

InputNext ==
    \/ load_mappings
    \/ update_keyboard_input
    \/ update_gamepad_input
    \/ upload_input
    \/ update_trigger_record

InputSpec == InputInit /\ [][InputNext]_vars

(***************************************************************************)
(* The player's state machine (player.rs)                                  *)
(***************************************************************************)
\* a step of set_player_state in which the query matched and no unwrap failed
StateEvaluated ==
    /\ pc = "pre"
    /\ accum = 0
    /\ pc' = "frame"
    /\ bodies[PlayerId].collisions # None

\* C11: the player starts Airborne, and after every state evaluation its state
\* is Grounded when the last reported sides contain DOWN, else SlidingLeft
\* when the left sensor senses world geometry, else SlidingRight when the
\* right sensor does, else Airborne.
C11_StateRule ==
    /\ player.state = "Airborne"
    /\ [][StateEvaluated =>
            LET sides == bodies[PlayerId].collisions[1]
                left  == sensed[LeftSensorId][1].world
                right == sensed[RightSensorId][1].world
            IN  /\ "DOWN" \in sides => player'.state = "Grounded"
                /\ "DOWN" \notin sides /\ left => player'.state = "SlidingLeft"
                /\ "DOWN" \notin sides /\ ~left /\ right => player'.state = "SlidingRight"
                /\ "DOWN" \notin sides /\ ~left /\ ~right => player'.state = "Airborne"]_vars

\* an evaluation found the wall at the player's left and no floor below
C11_Witness ==
    /\ pc = "frame"
    /\ player.state = "SlidingLeft"
    /\ bodies[PlayerId].collisions # None
    /\ "DOWN" \notin bodies[PlayerId].collisions[1]

\* the wall a velocity points away from: the side of a Sliding player that
\* horizontal velocity v_x leaves
MovingAwayFrom(state, velocity) ==
    \/ state = "SlidingLeft" /\ velocity[1] > 0
    \/ state = "SlidingRight" /\ velocity[1] < 0

\* C12: anti-sticking override.  A Sliding player that the mover moves with
\* horizontal velocity pointing away from the wall it slides on is Airborne
\* when that sweep has ended, before the next state evaluation.
C12_AntiSticking ==
    (/\ pc = "bodies" \/ (pc = "phys" /\ "move" \notin todo)
     /\ swept[PlayerId] = "inserted"
     /\ bodies[PlayerId].translation # start[PlayerId].translation
     /\ start[PlayerId].velocity[1] # 0)
    => ~MovingAwayFrom(player.state, start[PlayerId].velocity)

(***************************************************************************)
(* Jumping (player.rs, update_jump and update_player)                      *)
(***************************************************************************)
\* a step of update_player
UpdatePlayerStep ==
    /\ pc = "frame"
    /\ "update_player" \in todo
    /\ "update_player" \notin todo'

\* C13: jump buffering, honoured.  A jump request that is still pending when
\* update_player finds the player Grounded, at a gameplay time less than
\* jump_pressed_time + jump_buffer_time and with jumps_available > 0, gets the
\* jump impulse on that tick, whatever the input of the tick, and the pending
\* flag is cleared.
C13_BufferedJump ==
    [][(/\ UpdatePlayerStep
        /\ player.pressed_jump
        /\ player.state = "Grounded"
        /\ player.properties.jumps_available > 0
        /\ gameplay_time < player.jump_pressed_time + jump_buffer_time)
       => (/\ bodies'[PlayerId].velocity[2] = jump_force
           /\ ~player'.pressed_jump)]_vars

\* a request made in an earlier frame, when no jump could execute, was
\* honoured on landing within the buffer time, with no new press
C13_Witness ==
    /\ "update_player" \notin todo
    /\ hist.jump = "jump"
    /\ hist.state = "Grounded"
    /\ hist.pressed_at < hist.at
    /\ hist.at < hist.pressed_at + jump_buffer_time
    /\ input.Jump # "JustPressed"
    /\ ~player.pressed_jump
    /\ bodies[PlayerId].velocity[2] = jump_force

\* C14: jump buffering, expiry.  No jump and no wall jump is executed by an
\* update_player that reads a gameplay time greater than jump_pressed_time +
\* jump_buffer_time.
C14_BufferExpiry ==
    hist.jump # "none" => hist.at <= hist.pressed_at + jump_buffer_time

\* the player has been Grounded at an update tick and has not jumped since
OffGroundWithoutJump ==
    /\ player.state = "Airborne"
    /\ hist.grounded_at >= 0
    /\ hist.jumps = 0

\* C15, the jump: a pending request that update_player processes while the
\* player is Airborne, has not jumped since it was last Grounded and less than
\* coyote_time of gameplay time has passed since that Grounded tick, is
\* executed at full strength and counted as the first jump
C15_CoyoteJump ==
    (/\ UpdatePlayerStep
     /\ OffGroundWithoutJump
     /\ player.pressed_jump
     /\ gameplay_time - hist.grounded_at < coyote_time)
    => (/\ bodies'[PlayerId].velocity[2] = jump_force
        /\ player'.times_jumped_since_grounded = 1
        /\ ~player'.pressed_jump)

\* C15: coyote time, inside the window.  A jump pressed less than coyote_time
\* after the player left the ground without jumping executes at full strength
\* (exponent 0) and makes times_jumped_since_grounded 1, and the jumps made
\* between two groundings never exceed jumps_available.
C15_CoyoteInside ==
    /\ [](hist.jumps <= player.properties.jumps_available)
    /\ [][C15_CoyoteJump]_vars

\* a jump was executed in the air inside the coyote window
C15_Witness ==
    /\ "update_player" \notin todo
    /\ hist.jump = "jump"
    /\ hist.state = "Airborne"
    /\ hist.grounded_at >= 0
    /\ hist.at > hist.grounded_at
    /\ hist.at - hist.grounded_at < coyote_time
    /\ hist.jumps = 1
    /\ player.times_jumped_since_grounded = 1
    /\ bodies[PlayerId].velocity[2] = jump_force

\* the charges the bookkeeping has taken without a jump: the jumps counted
\* beyond the jumps made
Forfeited == player.times_jumped_since_grounded - hist.jumps

\* C16, the forfeit: an update_player that finds the player Airborne, not
\* having jumped since it was last Grounded, more than coyote_time of gameplay
\* time after that Grounded tick, leaves one charge forfeited
C16_Forfeit ==
    (/\ UpdatePlayerStep
     /\ OffGroundWithoutJump
     /\ gameplay_time - hist.grounded_at > coyote_time)
    => (/\ player.properties.jumps_available >= 2 => Forfeited' = 1
        /\ player.properties.jumps_available = 1 => ~player'.can_jump)

\* C16: coyote time, after the window.  Once the player has been off the
\* ground without jumping for more than coyote_time, exactly one charge is
\* forfeited, once per airtime: with jumps_available >= 2 the count
\* times_jumped_since_grounded is one more than the jumps made, with
\* jumps_available = 1 can_jump is false.
C16_CoyoteAfter ==
    /\ [](Forfeited \in {0, 1})
    /\ [][C16_Forfeit]_vars

\* a step of update_player that executes a regular jump
JumpStep == UpdatePlayerStep /\ hist'.jump = "jump"

\* the regular jumps made since the player was last Grounded, before this step
JumpsMade == IF player.state = "Grounded" THEN 0 ELSE hist.jumps

\* can_jump is false once jumps_available charges are used
SpentMeansDisarmed ==
    player.times_jumped_since_grounded >= player.properties.jumps_available
        => ~player.can_jump

\* C17 as stated: every regular jump sets velocity.y to jump_force *
\* multijump_coefficient^n with n the number of jumps already made since the
\* player was last grounded, n < jumps_available, and can_jump is false once
\* jumps_available jumps have been made.
C17_FalloffByJumpsMade ==
    /\ [](hist.jumps >= player.properties.jumps_available => ~player.can_jump)
    /\ [][JumpStep =>
            /\ bodies'[PlayerId].velocity[2] = JumpImpulse(JumpsMade)
            /\ JumpsMade < player.properties.jumps_available]_vars

\* C17, amended: every regular jump sets velocity.y to jump_force *
\* multijump_coefficient^n with n the value of times_jumped_since_grounded when
\* the jump executes, which is the number of jumps already made since the
\* player was last grounded plus one when the coyote charge has been
\* forfeited; n < jumps_available, and can_jump is false once
\* times_jumped_since_grounded has reached jumps_available.
C17_MultiJumpFalloff ==
    /\ [](SpentMeansDisarmed /\ Forfeited \in {0, 1})
    /\ [][JumpStep =>
            LET n == player'.times_jumped_since_grounded - 1 IN
            /\ n = JumpsMade + Forfeited'
            /\ bodies'[PlayerId].velocity[2]
                 = (jump_force * multijump_coefficient[1]^n) \div multijump_coefficient[2]^n
            /\ n < player.properties.jumps_available]_vars

\* the first jump after the coyote charge was forfeited has exponent 1
C17_Witness ==
    /\ "update_player" \notin todo
    /\ hist.jump = "jump"
    /\ hist.jumps = 1
    /\ Forfeited = 1
    /\ player.times_jumped_since_grounded = 2
    /\ bodies[PlayerId].velocity[2] = (jump_force * 4) \div 5
    /\ ~player.can_jump

\* C18: wall jump.  With a pending jump request, a Sliding player and
\* can_walljump, update_player sets velocity.y to walljump_vertical_force and
\* velocity.x to walljump_horizontal_force away from the wall (positive for
\* the left wall, negative for the right), records last_walljump_time and
\* clears the request, whatever can_jump is, and changes neither can_jump nor
\* times_jumped_since_grounded.
C18_WallJump ==
    [][(/\ UpdatePlayerStep
        /\ player.pressed_jump
        /\ Sliding(player.state)
        /\ player.properties.can_walljump)
       => (/\ bodies'[PlayerId].velocity[2] = walljump_vertical_force
           /\ player.state = "SlidingLeft"
                => bodies'[PlayerId].velocity[1] = walljump_horizontal_force
           /\ player.state = "SlidingRight"
                => bodies'[PlayerId].velocity[1] = -walljump_horizontal_force
           /\ player'.last_walljump_time = gameplay_time
           /\ ~player'.pressed_jump
           /\ player'.can_jump = player.can_jump
           /\ player'.times_jumped_since_grounded = player.times_jumped_since_grounded)]_vars

\* a wall jump off the right wall by a player that could still jump
C18_Witness ==
    /\ "update_player" \notin todo
    /\ hist.jump = "walljump"
    /\ hist.state = "SlidingRight"
    /\ player.can_jump
    /\ player.last_walljump_time = hist.at
    /\ bodies[PlayerId].velocity = << -walljump_horizontal_force, walljump_vertical_force >>

(***************************************************************************)
(* Wall slide (player.rs, update_player)                                   *)
(***************************************************************************)
\* a step of update_player for a Sliding player with a wall-slide cap, in
\* which no jump and no wall jump executes
SlideStep ==
    /\ UpdatePlayerStep
    /\ Sliding(player.state)
    /\ player.properties.wallslide_max_v_speed # None
    /\ hist'.jump = "none"

\* C19: wall-slide cap.  While the player is Sliding with
\* wallslide_max_v_speed = w, on a tick where no jump executes the falling
\* speed update_player leaves for the mover is at most w, and the cap is
\* applied after gravity: a fall that gravity takes beyond w leaves exactly w.
C19_WallslideCap ==
    [][SlideStep =>
        LET w == player.properties.wallslide_max_v_speed[1]
            vy == bodies[PlayerId].velocity[2]
        IN  /\ bodies'[PlayerId].velocity[2] >= -w
            /\ (vy <= 0 /\ vy - (gravity * time_delta) \div SecondDen < -w)
                 => bodies'[PlayerId].velocity[2] = -w]_vars

\* gravity took the fall of a Sliding player beyond the cap, and the cap cut it
C19_Witness ==
    /\ "update_player" \notin todo
    /\ Sliding(hist.state)
    /\ hist.jump = "none"
    /\ player.properties.wallslide_max_v_speed # None
    /\ hist.velocity[2] < 0
    /\ hist.velocity[2] - (gravity * time_delta) \div SecondDen
         < -player.properties.wallslide_max_v_speed[1]
    /\ bodies[PlayerId].velocity[2] = -player.properties.wallslide_max_v_speed[1]

\* C20: the cap acts in the falling direction only.  On a tick of a Sliding
\* player where no jump executes, a velocity.y that is still above w after
\* gravity (the player ascends, as right after a jump) is not reduced by the
\* wall-slide clamp: it stays above w.
C20_CapFallingOnly ==
    [][SlideStep =>
        LET w == player.properties.wallslide_max_v_speed[1]
            vy == bodies[PlayerId].velocity[2]
        IN  vy - (gravity * time_delta) \div SecondDen > w
              => bodies'[PlayerId].velocity[2] > w]_vars

(***************************************************************************)
(* Horizontal movement (player.rs, update_player)                          *)
(***************************************************************************)
\* a step of update_player with the stick at rest in which no wall jump
\* overwrites velocity.x
DeccelerationStep ==
    /\ UpdatePlayerStep
    /\ input.Horizontal = 0
    /\ hist'.jump # "walljump"

\* the decceleration per second the states are specified to have
SpecifiedDecceleration(state) ==
    IF state = "Grounded" THEN ground_decceleration ELSE air_decceleration

\* C21: deceleration never overshoots.  On an update tick with no horizontal
\* input velocity.x never changes sign and |velocity.x| never increases, and
\* a |velocity.x| of at most deceleration * dt becomes exactly 0, the
\* deceleration being ground_decceleration when Grounded and
\* air_decceleration when Airborne or Sliding.
C21_NoOvershoot ==
    [][DeccelerationStep =>
        LET vx == bodies[PlayerId].velocity[1]
            after == bodies'[PlayerId].velocity[1]
        IN  /\ vx * after >= 0
            /\ Abs(after) <= Abs(vx)
            /\ Abs(vx) <= PerDelta(SpecifiedDecceleration(player.state), time_delta)
                 => after = 0]_vars

\* C22: deceleration rate by state.  With no horizontal input velocity.x
\* moves toward 0 by ground_decceleration per second when Grounded and by
\* air_decceleration per second when Airborne or Sliding, stopping at 0.
C22_DeccelerationRate ==
    [][DeccelerationStep =>
        LET vx == bodies[PlayerId].velocity[1]
            decceleration == PerDelta(SpecifiedDecceleration(player.state), time_delta)
        IN  bodies'[PlayerId].velocity[1] =
                IF Abs(vx) > decceleration THEN vx - signum(vx) * decceleration ELSE 0]_vars

\* a step of update_player with the stick in use in which no wall jump
\* overwrites velocity.x
AccelerationStep ==
    /\ UpdatePlayerStep
    /\ input.Horizontal # 0
    /\ hist'.jump # "walljump"

\* the tick is within dead_time_after_walljump of the last wall jump
InDeadTime ==
    /\ hist.walljumped
    /\ gameplay_time <= player.last_walljump_time + dead_time_after_walljump

\* C23: wall-jump dead time.  On an update tick with non-zero horizontal
\* input within dead_time_after_walljump of the last wall jump velocity.x is
\* left unchanged; outside the dead time the input accelerates velocity.x
\* (toward the input's side, or velocity.x is at max_run_speed on that side)
\* and |velocity.x| <= max_run_speed afterwards.
C23_DeadTime ==
    [][AccelerationStep =>
        LET vx == bodies[PlayerId].velocity[1]
            after == bodies'[PlayerId].velocity[1]
        IN  IF InDeadTime
            THEN after = vx
            ELSE /\ \/ (after - vx) * input.Horizontal > 0
                    \/ after = input.Horizontal * max_run_speed
                 /\ Abs(after) <= max_run_speed]_vars

(***************************************************************************)
(* The trigger record (input_mapper.rs)                                    *)
(***************************************************************************)
\* C24: TriggerRecord set invariant.  After any sequence of press, release,
\* update_gamepad_button and finish_frame calls the sets just_pressed, held
\* and just_released are pairwise disjoint.
C24_DisjointSets ==
    LET r == mapper.trigger_record IN
    /\ r.held \cap r.just_pressed = {}
    /\ r.held \cap r.just_released = {}
    /\ r.just_pressed \cap r.just_released = {}

\* a step of upload_input: the frame's report of the triggers
UploadStep == pc = "events" /\ pc' = "update"

\* a step of update_trigger_record
FinishStep == pc = "update" /\ pc' = "events"

\* C25: frame rotation.  finish_frame moves every just_pressed trigger into
\* held, empties just_pressed and just_released and leaves the axis values
\* alone; a trigger pressed and not released in the same frame is reported
\* JustPressed in the frame of the press and Held in every later frame until
\* it is released, and a trigger is reported JustReleased only in the frame of
\* its release.
C25_FrameRotation ==
    [][/\ FinishStep =>
            LET r == mapper.trigger_record
                after == mapper'.trigger_record
            IN  /\ after.held = r.held \cup r.just_pressed
                /\ after.just_pressed = {}
                /\ after.just_released = {}
                /\ after.axis_values = r.axis_values
       /\ UploadStep =>
            \A t \in DigitalTriggers :
               LET reported == digital_trigger_state(mapper.trigger_record, t) IN
               /\ pressing[t].down = 1 => reported = "JustPressed"
               /\ pressing[t].down = 2 => reported = "Held"
               /\ reported = "JustReleased" => pressing[t].released]_vars

(***************************************************************************)
(* Bindings (input_mapper.rs, upload_input)                                *)
(***************************************************************************)
\* the states of the triggers bound to an action
BoundStates(r, bindings) ==
    {digital_trigger_state(r, bindings.primary)}
      \cup (IF bindings.secondary = None THEN {}
            ELSE {digital_trigger_state(r, bindings.secondary[1])})

\* C26: binding fallback for actions.  The state upload_input gives an
\* action is the maximum of the states of its primary and (if present)
\* secondary trigger under Released < JustReleased < JustPressed < Held: the
\* action is pressed exactly when a bound trigger is, and Released or
\* JustReleased only when neither is pressed.
C26_ActionFallback ==
    [][(UploadStep /\ mapper.mappings # None) =>
        LET states == BoundStates(mapper.trigger_record, mapper.mappings[1].actions.Jump)
            Before(a, b) ==
                a = b \/ << a, b >> \in {<< "Released", "JustReleased" >>,
                                         << "Released", "JustPressed" >>,
                                         << "Released", "Held" >>,
                                         << "JustReleased", "JustPressed" >>,
                                         << "JustReleased", "Held" >>,
                                         << "JustPressed", "Held" >>}
        IN  /\ input'.Jump \in states
            /\ \A state \in states : Before(state, input'.Jump)
            /\ is_pressed(input'.Jump) <=> \E state \in states : is_pressed(state)
            /\ input'.Jump \in {"Released", "JustReleased"}
                 => \A state \in states : ~is_pressed(state)]_vars

\* the primary key was released in the frame in which the secondary button
\* was pressed, and the action reads JustPressed
C26_Witness ==
    /\ pc = "update"
    /\ mapper.mappings = Some(InputMappingsDefault)
    /\ digital_trigger_state(mapper.trigger_record, "Space") = "JustReleased"
    /\ digital_trigger_state(mapper.trigger_record, "South") = "JustPressed"
    /\ input.Jump = "JustPressed"

\* a step of upload_input for mappings whose axis Horizontal has a
\* DigitalJoystick as its primary trigger
JoystickStep ==
    /\ UploadStep
    /\ mapper.mappings # None
    /\ mapper.mappings[1].axes.Horizontal.primary.kind = "DigitalJoystick"

\* the trigger is pressed as the record has it
TriggerPressed(t) == is_pressed(digital_trigger_state(mapper.trigger_record, t))

CellInside(level, x, y) ==
    LET lx == x * TILE_SIZE - level.world_x
        ly == y * TILE_SIZE - level.world_y
    IN  /\ 0 <= lx /\ lx < level.px_wid
        /\ 0 <= ly /\ ly < level.px_hei

\* what the lookup of cell (x, y) is specified to return: Solid exactly when
\* the cell lies inside a level whose Collision int grid is non-zero at the
\* cell's own local row-major index, None for every other cell
SpecifiedTile(project, x, y) ==
    IF \E li \in DOMAIN project.levels :
          LET level == project.levels[li] IN
          /\ CellInside(level, x, y)
          /\ \E ci \in DOMAIN level.layer_instances :
                LET layer == level.layer_instances[ci]
                    lx == x - level.world_x \div TILE_SIZE
                    ly == y - level.world_y \div TILE_SIZE
                IN  /\ layer.identifier = "Collision"
                    /\ layer.int_grid_csv[lx + ly * layer.c_wid + 1] # 0
    THEN "Solid"
    ELSE "None"

\* the cells get_rect_collisions looks up for body b where it is
LookedUp(b) ==
    LET tiles == tiles_to_check(translate(BodyRect, bodies[b].translation)) IN
    {tiles[i] : i \in DOMAIN tiles}

\* C28: world lookup is total.  For every cell the collision test of a body
\* looks up, get_tile returns Solid exactly when the cell lies inside a level
\* whose Collision int grid is non-zero at the cell's own index, and None
\* without panicking or reading another cell's entry otherwise, the cells on
\* a level's right and bottom boundary included.
C28_TotalLookup ==
    project_loaded =>
        \A b \in KinematicBodies : \A cell \in LookedUp(b) :
            get_tile(Worlds[world].project, cell[1], cell[2])
                = SpecifiedTile(Worlds[world].project, cell[1], cell[2])

(***************************************************************************)
(* Absent world (physics.rs, move_bodies and detect_bodies)                *)
(***************************************************************************)
\* a system of the physics set runs and ends in this step
SystemEnds(system) == system \in todo /\ system \notin todo'

\* C29: absent world.  On a tick where the LDtk project is not loaded
\* move_bodies and detect_bodies return without error and change no body's
\* position, velocity or collision sides and no sensor's sensed bodies; on a
\* tick where it is loaded move_bodies runs its query (it begins the sweep of
\* the bodies) and detect_bodies inserts the SensedBodies of every sensor.
C29_AbsentWorld ==
    [][/\ (pc = "phys" /\ ~project_loaded) =>
            /\ bodies' = bodies
            /\ sensed' = sensed
            /\ SystemEnds("move") \/ SystemEnds("detect")
            /\ pc' = AfterSystem(todo')
       /\ (pc = "phys" /\ project_loaded /\ "move" \in todo /\ todo' # todo) =>
            SystemEnds("detect")
       /\ (pc = "phys" /\ project_loaded /\ pc' = "bodies") =>
            /\ Len(queue') = Cardinality(KinematicBodies)
            /\ \A b \in KinematicBodies : swept'[b] = "pending"
       /\ (project_loaded /\ SystemEnds("detect")) =>
            \A s \in Sensors : sensed'[s] # None]_vars

\* the first tick ran without the project and inserted nothing; in the
\* second tick the project is there and move_bodies has moved the player
C29_Witness ==
    /\ ticks = 2
    /\ project_loaded
    /\ pc = "phys"
    /\ todo = {"detect"}
    /\ \A s \in Sensors : sensed[s] = None
    /\ bodies[PlayerId].collisions # None
    /\ swept[PlayerId] = "inserted"
    /\ bodies[PlayerId].translation # start[PlayerId].translation

(***************************************************************************)
(* Tuning tolerance (player.rs, update_player)                             *)
(***************************************************************************)
\* C30: tuning tolerance.  update_player completes without panicking for
\* every PlayerProperties value and any change of the properties between
\* ticks: no tick ends with a panic of update_player.
C30_TuningTolerance == ~(pc = "crashed" /\ "update_player" \in todo)

(***************************************************************************)
(* The Update stage against the fixed timestep: frames in which the        *)
(* physics set does not run                                                *)
(***************************************************************************)
\* frames of a behaviour of TickSpec
MaxTickFrames == 4

\* Time::delta of the frames of TickSpec, in 1/60 s: frames of about one
\* fixed step, in which FixedTimestep owes a run or not
TickDeltas == {1}

\* the properties are fixed, the first Playing frame is the first frame
TickInit == PlayerInit /\ startup = 0

\* a frame begins: Time::update, and upload_input fills the Input resource
TickFrame ==
    /\ pc = "frame"
    /\ todo = {}
    /\ hist.frames < MaxTickFrames
    /\ \E dt \in TickDeltas :
         /\ time_delta' = dt
         /\ startup' = startup + dt
    /\ \E jump \in NextActionState(input.Jump) :
         input' = [input EXCEPT !.Jump = jump]
    /\ hist' = [hist EXCEPT !.frames = @ + 1, !.ticked = TRUE]
    /\ pc' = "stage"
    /\ UNCHANGED << physics_stage, bodies, sensed, player, todo, gameplay_time, mapper,
                    pressing, app_state, paused >>

\* FixedTimestep::step(1. / 60.): the accumulator does not reach a step in a
\* frame of at most 1/60 s, and the physics set is not run in it
NoPhysicsTick ==
    /\ pc = "stage"
    /\ time_delta <= 1
    /\ hist' = [hist EXCEPT !.ticked = FALSE]
    /\ todo' = {"tick_gameplay_time", "update_jump", "update_player"}
    /\ pc' = "pre"
    /\ UNCHANGED << physics_stage, time_delta, bodies, sensed, player, input, startup,
                    gameplay_time, mapper, pressing, app_state, paused >>

TickNext ==
    \/ TickFrame
    \/ PhysicsStage
    \/ NoPhysicsTick
    \/ set_player_state
    \/ tick_gameplay_time
    \/ update_jump
    \/ update_player

TickSpec == TickInit /\ [][TickNext]_vars

\* C33: jump budget under any interleaving.  With fixed properties, the
\* regular jump impulses applied since a physics tick last reported the player
\* blocked from below never exceed jumps_available, whatever the number of
\* physics ticks between two player updates.
C33_JumpBudget == hist.impulses <= player.properties.jumps_available

(***************************************************************************)
(* Pausing (pausing.rs) and the gameplay clock (time.rs), with the physics *)
(* set of the PreUpdate stage                                              *)
(***************************************************************************)
\* the systems of the Update stage the state lets run: tick_gameplay_time is
\* on_update(AppState::Playing)
OnUpdate(state) == IF state = "Playing" THEN {"tick_gameplay_time"} ELSE {}

\* the velocities the bodies begin a behaviour of PauseSpec with
PausePlayerVelocities ==
    {ZERO} \cup {VelocityOf(d, 2) : d \in {<<-5, 0>>, <<0, 5>>, <<0, -5>>, <<-3, -4>>}}
PauseOtherVelocities == {ZERO, VelocityOf(<<0, 5>>, 2)}

\* the app is still loading, or already playing
PauseInit ==
    /\ world \in DOMAIN Worlds
    /\ project_loaded = FALSE
    /\ physics_world = << >>
    /\ time_delta = 0
    /\ accum = 0
    /\ \E pt \in PlayerStarts, pv \in PausePlayerVelocities, ot \in OtherStarts,
          ov \in PauseOtherVelocities :
         bodies = [b \in KinematicBodies |->
            IF b = PlayerId
            THEN [translation |-> pt, velocity |-> pv, collisions |-> None,
                  pass_through_platforms |-> FALSE]
            ELSE [translation |-> ot, velocity |-> ov, collisions |-> None,
                  pass_through_platforms |-> FALSE]]
    /\ sensed = [s \in Sensors |-> None]
    /\ player = PlayerDefault(DefaultProperties)
    /\ input = InputDefault
    /\ startup = 0
    /\ gameplay_time = 0
    /\ \E state \in {"Loading", "Playing"} :
         /\ app_state = [current |-> state, scheduled |-> None]
         /\ hist = [NoHistory EXCEPT !.app = state]
    /\ paused = FALSE
    /\ mapper = InputMapperDefault
    /\ pressing = NoEvents
    /\ pc = "frame"
    /\ todo = {}
    /\ queue = << >>
    /\ cur = PlayerId
    /\ sweep = [to_move |-> ZERO, step |-> ZERO, collisions |-> {},
                last_position |-> ZERO, outcomes |-> {}]
    /\ start = [b \in KinematicBodies |->
                    [translation |-> ZERO, velocity |-> ZERO, collisions |-> None,
                     delta_time |-> 0]]
    /\ swept = [b \in KinematicBodies |-> "none"]
    /\ iters = 0
    /\ ticks = 0

\* the Update stage begins: upload_input has filled the action Pause, and the
\* systems of the first pass are pause_on_esc and those of the current state
BeginUpdate ==
    /\ pc = "pre"
    /\ accum = 0
    /\ \E pause \in NextActionState(input.Pause) : input' = [input EXCEPT !.Pause = pause]
    /\ startup' = startup + time_delta
    /\ hist' = [hist EXCEPT !.app = app_state.current]
    /\ todo' = {"pause_on_esc"} \cup OnUpdate(app_state.current)
    /\ pc' = "frame"
    /\ UNCHANGED << physics_stage, time_delta, bodies, sensed, player, gameplay_time, mapper,
                    pressing, app_state, paused >>

\* a faulty pause_on_esc: it pauses on a held key too
pause_on_esc_Held ==
    /\ pc = "frame"
    /\ "pause_on_esc" \in todo
    /\ app_state' =
         IF is_pressed(input.Pause) /\ app_state.current = "Playing"
         THEN [app_state EXCEPT !.scheduled = Some("Paused")]
         ELSE IF is_pressed(input.Pause) /\ app_state.current = "Paused"
         THEN [app_state EXCEPT !.scheduled = Some("Playing")]
         ELSE app_state
    /\ todo' = todo \ {"pause_on_esc"}
    /\ UNCHANGED << physics_stage, time_delta, bodies, sensed, player, pc, input, startup,
                    gameplay_time, hist, mapper, pressing, paused >>

\* fn pause_on_esc: a system of the Update stage in every state
pause_on_esc ==
    /\ pc = "frame"
    /\ "pause_on_esc" \in todo
    /\ app_state' =
         IF input.Pause = "JustPressed" /\ app_state.current = "Playing"
         THEN [app_state EXCEPT !.scheduled = Some("Paused")]
         ELSE IF input.Pause = "JustPressed" /\ app_state.current = "Paused"
         THEN [app_state EXCEPT !.scheduled = Some("Playing")]
         ELSE app_state
    /\ todo' = todo \ {"pause_on_esc"}
    /\ UNCHANGED << physics_stage, time_delta, bodies, sensed, player, pc, input, startup,
                    gameplay_time, hist, mapper, pressing, paused >>

\* the scheduled transition is applied once the pass is over: the state
\* changes, the on_enter systems run, then the on_update systems of the new
\* state run in the same frame
ApplyTransition(state, stopwatch_paused) ==
    /\ pc = "frame"
    /\ todo = {}
    /\ app_state.scheduled = Some(state)
    /\ app_state' = [current |-> state, scheduled |-> None]
    /\ paused' = stopwatch_paused
    /\ todo' = OnUpdate(state)
    /\ UNCHANGED << physics_stage, time_delta, bodies, sensed, player, pc, input, startup,
                    gameplay_time, hist, mapper, pressing >>

\* fn pause_gameplay_time: on_enter(AppState::Paused)
pause_gameplay_time == ApplyTransition("Paused", TRUE)

\* fn unpause_gameplay_time: on_enter(AppState::Playing)
unpause_gameplay_time == ApplyTransition("Playing", FALSE)

PauseNext ==
    \/ LoadProject
    \/ BeginFrame
    \/ update_physics_world
    \/ MoveBodiesNoProject
    \/ MoveBodiesBegin
    \/ BodySkipped
    \/ BodyBegin
    \/ LoopFree
    \/ LoopBlockedX
    \/ LoopBlockedY
    \/ LoopCorner
    \/ LoopPanic
    \/ InsertCollisions
    \/ MoveBodiesEnd
    \/ DetectBodiesNoProject
    \/ detect_bodies
    \/ DetectBodiesPanic
    \/ BeginUpdate
    \/ pause_on_esc
    \/ pause_gameplay_time
    \/ unpause_gameplay_time
    \/ tick_gameplay_time

PauseSpec == PauseInit /\ [][PauseNext]_vars

(***************************************************************************)
(* Properties of pausing and of the gameplay clock                         *)
(***************************************************************************)
\* the Update stage of a frame is over: every system of it has run, and no
\* transition is left to apply
UpdateOver == pc = "frame" /\ todo = {} /\ app_state.scheduled = None

\* the state a JustPressed Pause toggles state to
Toggled(state) ==
    IF state = "Playing" THEN "Paused" ELSE IF state = "Paused" THEN "Playing" ELSE state

\* C31: a JustPressed Pause action toggles the app state between Playing and
\* Paused and changes nothing in any other state; the elapsed value of
\* GameplayTime never decreases, and it advances only in a step taken while
\* the app state is Playing.  (State part: when the Update stage of a frame
\* is over, the state is the toggled state of the beginning of the frame if
\* Pause was JustPressed, and the state of the beginning otherwise.)
C31_FrameState ==
    UpdateOver =>
        app_state.current =
            (IF input.Pause = "JustPressed" THEN Toggled(hist.app) ELSE hist.app)

\* C31, clock part: no step decreases the elapsed time, and a step that
\* advances it is taken in AppState::Playing with the stopwatch running
C31_ClockStep ==
    /\ gameplay_time' >= gameplay_time
    /\ gameplay_time' # gameplay_time =>
          /\ app_state.current = "Playing"
          /\ ~paused
          /\ gameplay_time' = gameplay_time + time_delta

\* C31: state part and clock part together
C31_PauseAndClock == [](C31_FrameState) /\ [][C31_ClockStep]_vars

\* C31 witness: the game was paused and resumed by two presses of Pause, and
\* the clock has advanced in between
C31_Witness ==
    /\ UpdateOver
    /\ input.Pause = "JustPressed"
    /\ hist.app = "Paused"
    /\ app_state.current = "Playing"
    /\ ~paused
    /\ gameplay_time > 0

\* C35: pause freezes the simulation.  No step taken while the app state is
\* Paused changes the position or the velocity of a kinematic body (so the
\* position and velocity when play resumes are those at the moment of
\* pausing).
C35_PauseFreezes ==
    [][app_state.current = "Paused" =>
          \A b \in KinematicBodies :
              /\ bodies'[b].translation = bodies[b].translation
              /\ bodies'[b].velocity = bodies[b].velocity]_vars

(***************************************************************************)
(* Properties of the sweep: displacement and the tie-break between axes    *)
(***************************************************************************)
\* C32: full displacement when unobstructed.  When the sweep of a body has
\* ended and no pass of its loop collided, the body is at its start position
\* plus the desired delta (velocity * dt), whatever the length of the delta.
C32_FullDisplacement ==
    (pc = "after" /\ sweep.outcomes \subseteq {"free"}) =>
        bodies[cur].translation = VAdd(start[cur].translation, Desired(cur))

\* the sub-step the loop is about to take is diagonal and clips an outer
\* corner: the stepped position collides, and neither the position with only
\* X rolled back nor the position with only Y rolled back does
TieBreakCase ==
    /\ pc = "loop"
    /\ sweep.step[1] # 0
    /\ sweep.step[2] # 0
    /\ is_colliding(cur, Stepped) = "Some"
    /\ is_colliding(cur, << bodies[cur].translation[1], Stepped[2] >>) = "None"
    /\ is_colliding(cur, << Stepped[1], bodies[cur].translation[2] >>) = "None"

\* C39: tie-break between axes.  A diagonal sub-step that collides and would
\* be cleared by rolling back X alone and also by rolling back Y alone is
\* treated as a horizontal block only: X is rolled back and the stepped Y is
\* kept, velocity.x becomes 0 and velocity.y is kept, and the sub-step adds
\* the horizontal side of the velocity (LEFT or RIGHT) and no UP or DOWN.
C39_TieBreak ==
    [][TieBreakCase =>
          /\ bodies'[cur].translation = << bodies[cur].translation[1], Stepped[2] >>
          /\ bodies'[cur].velocity = << 0, bodies[cur].velocity[2] >>
          /\ sweep'.collisions = sweep.collisions \cup {HorizontalSide(bodies[cur].velocity)}
          /\ sweep'.outcomes = sweep.outcomes \cup {"x"}]_vars

\* C39 witness: the first collision of a sweep was such a corner clip (the
\* step was still the first step of the sweep), and the pass has been taken:
\* the body is at the old X and the stepped Y, with velocity.x = 0
C39_Witness ==
    LET step == calculate_delta_step(Desired(cur))
        last_position == sweep.last_position
    IN  /\ pc \in {"loop", "after"}
        /\ sweep.outcomes \in {{"x"}, {"free", "x"}}
        /\ step[1] # 0
        /\ step[2] # 0
        /\ is_colliding(cur, VAdd(last_position, step)) = "Some"
        /\ is_colliding(cur, << last_position[1] + step[1], last_position[2] >>) = "None"
        /\ bodies[cur].translation = << last_position[1], last_position[2] + step[2] >>
        /\ bodies[cur].velocity[1] = 0
        /\ bodies[cur].velocity[2] # 0
        /\ sweep.collisions \cap {"UP", "DOWN"} = {}

(***************************************************************************)
(* Properties of the trigger record over frames                            *)
(***************************************************************************)
\* C34: no stuck input.  In the report of a frame (what upload_input has read
\* from the record), a trigger that is not down and had no release event in
\* this frame (its last event was a release in an earlier frame, or it was
\* never pressed) is Released, and a trigger that is not down is never Held,
\* also when its press and its release fell in the same frame.
C34_NoStuckInput ==
    pc = "update" =>
        \A t \in DigitalTriggers :
            pressing[t].down = 0 =>
                LET reported == digital_trigger_state(mapper.trigger_record, t) IN
                /\ reported # "Held"
                /\ ~pressing[t].released => reported = "Released"

(***************************************************************************)
(* Properties of the player over the clocks                                *)
(***************************************************************************)
\* the charge is taken by this step of update_player without a jump
ForfeitStep ==
    /\ UpdatePlayerStep
    /\ IF player.properties.jumps_available = 1
       THEN player.can_jump /\ ~player'.can_jump /\ hist'.jump # "jump"
       ELSE player'.times_jumped_since_grounded =
                player.times_jumped_since_grounded + 1 + (IF hist'.jump = "jump" THEN 1 ELSE 0)

\* C36: the coyote window is measured on the gameplay clock only.  The time
\* update_player stores at a Grounded tick is the gameplay time it read at
\* that tick, and an Airborne tick of a player that has not jumped since it
\* was last Grounded takes the charge when more than coyote_time of gameplay
\* time has passed since that Grounded tick, and only then.
C36_GameplayClockOnly ==
    [][UpdatePlayerStep =>
          /\ player.state = "Grounded" => player'.last_grounded_time = gameplay_time
          /\ (/\ OffGroundWithoutJump
              /\ player.times_jumped_since_grounded = 0
              /\ player.properties.jumps_available >= 2)
             => (ForfeitStep <=> gameplay_time - hist.grounded_at > coyote_time)]_vars

\* C37: horizontal input is suppressed only by an actual wall jump.  For a
\* player that has never performed a wall jump, every update tick with
\* non-zero horizontal input changes velocity.x by the acceleration of the
\* tick (up to max_run_speed), from the first tick of gameplay time on.
C37_InputNotSuppressed ==
    [][(/\ UpdatePlayerStep
        /\ input.Horizontal # 0
        /\ ~hist.walljumped
        /\ hist'.jump # "walljump")
       => LET vx == bodies[PlayerId].velocity[1]
              v == vx + input.Horizontal
                        * Acceleration(player.state, input.Horizontal, vx, time_delta)
          IN  bodies'[PlayerId].velocity[1] =
                  (IF Abs(v) > max_run_speed THEN max_run_speed * signum(v) ELSE v)]_vars

\* C38: terminal speed invariant.  With the (non-negative) default jump_force,
\* walljump_vertical_force and terminal_speed, the falling speed update_player
\* leaves in Velocity for the mover is at most terminal_speed on every update
\* tick, after any sequence of ticks, jumps, wall jumps and collisions.
C38_TerminalSpeed ==
    [][UpdatePlayerStep => bodies'[PlayerId].velocity[2] >= -terminal_speed]_vars

\* C38 witness: an update tick at which gravity took the falling speed beyond
\* terminal_speed and the player leaves it falling at terminal_speed
C38_Witness ==
    /\ pc = "frame"
    /\ "update_player" \notin todo
    /\ hist.frames > 0
    /\ hist.jump = "none"
    /\ ApplyGravity(hist.velocity[2], FALSE, time_delta) < -terminal_speed
    /\ bodies[PlayerId].velocity[2] = -terminal_speed

====
